---- MODULE Spec2Model ----
(***************************************************************************)
(* Link-intelligence engine of pgbackend (src/src/tools.py, agent.py,      *)
(* main.py, data_config.py): link classification, toxicity scoring, page   *)
(* report building, sitemap parsing and the sitemap walk.                  *)
(*                                                                         *)
(* Python str values are TLA+ strings; the string primitives the code      *)
(* uses (lower, in, startswith, endswith, split, strip, replace, join)     *)
(* are computed character by character.  Inputs are ASCII.                 *)
(* Python dicts are functions; "k in d" is k \in DOMAIN d.                 *)
(***************************************************************************)
EXTENDS Integers, Sequences, FiniteSets, TLC

VARIABLES
    pc,                 \* position of the running entry point
    args,               \* arguments of the function under call
    ret,                \* its return value
    web,                \* what the network serves: page responses, sitemap documents
    served,             \* the page fetches made so far: URL and what was served
    state,              \* the link-categorization workflow's state (LinkCategorizationState)
    response,           \* the response of /agent/link-categorization
    urls,               \* crawl_sitemap_pages: the parsed sitemap
    idx,                \* crawl_sitemap_pages: pages of urls_to_crawl already visited
    all_pages_links,    \* crawl_sitemap_pages: the pages list
    category_summary    \* crawl_sitemap_pages: the category accumulator

agentVars == <<state, response>>
crawlVars == <<urls, idx, all_pages_links, category_summary>>
vars == <<pc, args, ret, web, served, state, response, urls, idx, all_pages_links,
          category_summary>>

None == "None"

\* a local of the sitemap walk before its first assignment
Unbound == <<>>

\* the variables an entry point does not use
NoWeb == web = None /\ served = <<>>
NoAgent == state = None /\ response = None
NoCrawl == urls = Unbound /\ idx = 0 /\ all_pages_links = Unbound /\ category_summary = Unbound

(***************************************************************************)
(* str primitives                                                          *)
(***************************************************************************)
UpperChars == "ABCDEFGHIJKLMNOPQRSTUVWXYZ"
LowerChars == "abcdefghijklmnopqrstuvwxyz"
Digits == "0123456789"

CharAt(s, i) == SubSeq(s, i, i)

From(s, i) == SubSeq(s, i, Len(s))

\* c in chars, for a one-character string c
InChars(c, chars) == \E i \in 1..Len(chars) : CharAt(chars, i) = c

\* str.lower() on one character
LowerCh(c) ==
    IF InChars(c, UpperChars)
    THEN CharAt(LowerChars, CHOOSE i \in 1..Len(UpperChars) : CharAt(UpperChars, i) = c)
    ELSE c

RECURSIVE Lower(_)
\* str.lower()
Lower(s) == IF s = "" THEN "" ELSE LowerCh(CharAt(s, 1)) \o Lower(From(s, 2))

\* s.startswith(p)
StartsWith(s, p) == Len(s) >= Len(p) /\ SubSeq(s, 1, Len(p)) = p

\* s.endswith(p)
EndsWith(s, p) == Len(s) >= Len(p) /\ SubSeq(s, Len(s) - Len(p) + 1, Len(s)) = p

\* k in s  (substring test)
Contains(s, k) ==
    \E i \in 1..(Len(s) - Len(k) + 1) : SubSeq(s, i, i + Len(k) - 1) = k

\* str.isspace() on one character
IsSpace(c) == c \in {" ", "\t", "\n", "\r"}

RECURSIVE LStrip(_)
LStrip(s) == IF s # "" /\ IsSpace(CharAt(s, 1)) THEN LStrip(From(s, 2)) ELSE s

RECURSIVE RStrip(_)
RStrip(s) ==
    IF s # "" /\ IsSpace(CharAt(s, Len(s))) THEN RStrip(SubSeq(s, 1, Len(s) - 1)) ELSE s

\* str.strip()
Strip(s) == RStrip(LStrip(s))

RECURSIVE WordCountFrom(_, _)
\* number of words of s when the previous character was (inWord) part of a word
WordCountFrom(s, inWord) ==
    IF s = "" THEN 0
    ELSE IF IsSpace(CharAt(s, 1)) THEN WordCountFrom(From(s, 2), FALSE)
    ELSE (IF inWord THEN 0 ELSE 1) + WordCountFrom(From(s, 2), TRUE)

\* len(s.split())
WordCount(s) == WordCountFrom(s, FALSE)

RECURSIVE Replace(_, _, _)
\* s.replace(old, new), old non-empty: leftmost non-overlapping occurrences
Replace(s, old, new) ==
    IF Len(s) < Len(old) THEN s
    ELSE IF StartsWith(s, old) THEN new \o Replace(From(s, Len(old) + 1), old, new)
    ELSE CharAt(s, 1) \o Replace(From(s, 2), old, new)

RECURSIVE Join(_, _)
\* sep.join(parts)
Join(parts, sep) ==
    IF parts = <<>> THEN ""
    ELSE IF Len(parts) = 1 THEN parts[1]
    ELSE parts[1] \o sep \o Join(Tail(parts), sep)

\* max(a, b), min(a, b)
Max(a, b) == IF a >= b THEN a ELSE b
Min(a, b) == IF a <= b THEN a ELSE b

\* d.get(k, default)
Get(d, k, default) == IF k \in DOMAIN d THEN d[k] ELSE default

\* any(p(x) for x in seq)
Range(seq) == {seq[i] : i \in 1..Len(seq)}

(***************************************************************************)
(* data_config.py: link analysis configuration                             *)
(***************************************************************************)
SPAM_INDICATORS ==
    << "spam", "casino", "poker", "viagra", "pharma", "loan", "debt",
       "crypto", "forex", "trading", "xxx", "adult", "porn", "cheap",
       "free", "money", "weight loss", "dating", "escort" >>

SUSPICIOUS_TLDS == << ".biz", ".info", ".tk", ".ml", ".ga", ".cf", ".gq" >>

GENERIC_ANCHORS ==
    << "click here", "read more", "check this out", "here", "link",
       "more info", "learn more", "continue reading", "view more" >>

TOXICITY_HIGH == 70
TOXICITY_MEDIUM == 40
TOXICITY_LOW == 20

\* variant: a spam-anchor weight below the generic-anchor weight
TOXICITY_WEIGHTS_spam10 ==
    [ very_low_da |-> 40, low_da |-> 20, suspicious_domain |-> 50,
      suspicious_tld |-> 15, keyword_stuffing |-> 20, spam_keywords |-> 10,
      risky_page_type |-> 30, generic_anchor |-> 15 ]

TOXICITY_WEIGHTS ==
    [ very_low_da |-> 40, low_da |-> 20, suspicious_domain |-> 50,
      suspicious_tld |-> 15, keyword_stuffing |-> 20, spam_keywords |-> 25,
      risky_page_type |-> 30, generic_anchor |-> 15 ]

(***************************************************************************)
(* data_config.py: LINK_CATEGORIES, in declaration (dict iteration) order  *)
(***************************************************************************)
LINK_CATEGORIES ==
    << [name |-> "navigation",
        keywords |-> <<"home", "about", "contact", "menu", "nav", "header", "footer",
                       "sitemap">>,
        description |-> "Navigation and menu links"],
       [name |-> "ecommerce",
        keywords |-> <<"shop", "store", "cart", "checkout", "buy", "purchase", "order",
                       "product", "products", "item", "items">>,
        description |-> "E-commerce and shopping links"],
       [name |-> "product",
        keywords |-> <<"product", "item", "catalog", "inventory", "merchandise",
                       "goods", "sku">>,
        description |-> "Product pages and listings"],
       [name |-> "account",
        keywords |-> <<"login", "signup", "register", "account", "profile", "dashboard",
                       "settings", "logout", "signin">>,
        description |-> "User account and authentication links"],
       [name |-> "support",
        keywords |-> <<"help", "support", "faq", "documentation", "docs", "tutorial",
                       "guide", "contact", "service">>,
        description |-> "Support and help resources"],
       [name |-> "social",
        keywords |-> <<"facebook", "twitter", "instagram", "linkedin", "youtube",
                       "pinterest", "tiktok", "reddit", "social", "share">>,
        description |-> "Social media links"],
       [name |-> "legal",
        keywords |-> <<"privacy", "terms", "disclaimer", "legal", "cookie", "policy",
                       "gdpr", "compliance", "license">>,
        description |-> "Legal and policy pages"],
       [name |-> "content",
        keywords |-> <<"blog", "article", "post", "news", "story", "press", "magazine",
                       "publication">>,
        description |-> "Blog and content pages"],
       [name |-> "business",
        keywords |-> <<"pricing", "plans", "features", "case-study", "resources",
                       "solutions", "enterprise", "demo">>,
        description |-> "Business and marketing pages"],
       [name |-> "careers",
        keywords |-> <<"career", "careers", "jobs", "hiring", "employment", "work",
                       "join", "team", "vacancy">>,
        description |-> "Career and job opportunity links"],
       [name |-> "external",
        keywords |-> <<>>,
        description |-> "External third-party links"],
       [name |-> "media",
        keywords |-> <<"image", "video", "pdf", "download", "media", "gallery", "photo",
                       "audio", "file">>,
        description |-> "Media and downloadable content"],
       [name |-> "utility",
        keywords |-> <<"search", "filter", "tag", "category", "archive", "rss", "feed",
                       "print", "email">>,
        description |-> "Utility and functional pages"] >>

\* LINK_CATEGORIES.keys()
CategoryNames == {LINK_CATEGORIES[i].name : i \in 1..Len(LINK_CATEGORIES)}

(***************************************************************************)
(* urllib.parse.urlparse(href).netloc                                      *)
(***************************************************************************)
SchemeChars == UpperChars \o LowerChars \o Digits \o "+-."

\* str.find(c) for a one-character c: 1-based index, 0 when absent
Find(s, c) ==
    IF \E i \in 1..Len(s) : CharAt(s, i) = c
    THEN CHOOSE i \in 1..Len(s) :
            CharAt(s, i) = c /\ \A j \in 1..(i - 1) : CharAt(s, j) # c
    ELSE 0

\* urlsplit: the text after "scheme:", or the whole text when it has no scheme
AfterScheme(url) ==
    LET i == Find(url, ":")
    IN  IF /\ i > 1
           /\ InChars(CharAt(url, 1), UpperChars \o LowerChars)
           /\ \A j \in 1..(i - 1) : InChars(CharAt(url, j), SchemeChars)
        THEN From(url, i + 1)
        ELSE url

\* urlsplit: the scheme, lowercased ("" when there is none)
SchemeOf(url) ==
    LET i == Find(url, ":")
    IN  IF /\ i > 1
           /\ InChars(CharAt(url, 1), UpperChars \o LowerChars)
           /\ \A j \in 1..(i - 1) : InChars(CharAt(url, j), SchemeChars)
        THEN Lower(SubSeq(url, 1, i - 1))
        ELSE ""

\* _splitnetloc: index of the first of "/?#" at or after position 3, else Len + 1
NetlocEnd(rest) ==
    LET stops == {i \in 3..Len(rest) : CharAt(rest, i) \in {"/", "?", "#"}}
    IN  IF stops = {} THEN Len(rest) + 1
        ELSE CHOOSE i \in stops : \A j \in stops : i <= j

\* urlparse(url).netloc
Netloc(url) ==
    LET rest == AfterScheme(url)
    IN  IF StartsWith(rest, "//") THEN SubSeq(rest, 3, NetlocEnd(rest) - 1) ELSE ""

(***************************************************************************)
(* tools.py: categorize_link; confidence is in tenths (10 is 1.0)          *)
(***************************************************************************)
\* variant: the keyword test on href_lower alone
KeywordHit_hrefOnly(config, href_lower, anchor_lower) ==
    \E i \in 1..Len(config.keywords) : Contains(href_lower, config.keywords[i])

\* any keyword of the category in href_lower or in anchor_lower
KeywordHit(config, href_lower, anchor_lower) ==
    \E i \in 1..Len(config.keywords) :
        \/ Contains(href_lower, config.keywords[i])
        \/ Contains(anchor_lower, config.keywords[i])

RECURSIVE CategorizeInternal(_, _, _)
\* the loop over LINK_CATEGORIES.items() from its i-th entry on
CategorizeInternal(i, href_lower, anchor_lower) ==
    IF i > Len(LINK_CATEGORIES) THEN [category |-> "business", confidence |-> 5]
    ELSE IF /\ LINK_CATEGORIES[i].name # "external"
            /\ KeywordHit(LINK_CATEGORIES[i], href_lower, anchor_lower)
    THEN [category |-> LINK_CATEGORIES[i].name, confidence |-> 9]
    ELSE CategorizeInternal(i + 1, href_lower, anchor_lower)

\* link_domain = urlparse(href).netloc.replace('www.', '')
LinkDomain(href) == Replace(Netloc(href), "www.", "")

categorize_link(href, anchor_text, page_domain) ==
    LET link_domain == LinkDomain(href)
        is_external == link_domain # "" /\ link_domain # page_domain
    IN  IF is_external THEN [category |-> "external", confidence |-> 10]
        ELSE CategorizeInternal(1, Lower(href), Lower(anchor_text))

(***************************************************************************)
(* urllib.parse.urljoin(base, url) (no ";params" in the inputs)            *)
(***************************************************************************)
UsesRelative ==
    { "", "ftp", "http", "gopher", "nntp", "imap", "wais", "file", "https", "shttp",
      "mms", "prospero", "rtsp", "rtspu", "sftp", "svn", "svn+ssh", "ws", "wss" }

\* urlsplit: fragment, query and path of the text rest2 that follows the netloc
UrlSplitPath(scheme, netloc, rest2) ==
    LET h        == Find(rest2, "#")
        fragment == IF h > 0 THEN From(rest2, h + 1) ELSE ""
        rest3    == IF h > 0 THEN SubSeq(rest2, 1, h - 1) ELSE rest2
        q        == Find(rest3, "?")
        query    == IF q > 0 THEN From(rest3, q + 1) ELSE ""
        path     == IF q > 0 THEN SubSeq(rest3, 1, q - 1) ELSE rest3
    IN  [scheme |-> scheme, netloc |-> netloc, path |-> path, query |-> query,
         fragment |-> fragment]

\* urlsplit: the netloc of the text rest that follows the scheme
UrlSplitNetloc(scheme, rest) ==
    LET hasNet == StartsWith(rest, "//")
    IN  UrlSplitPath(scheme,
                     IF hasNet THEN SubSeq(rest, 3, NetlocEnd(rest) - 1) ELSE "",
                     IF hasNet THEN From(rest, NetlocEnd(rest)) ELSE rest)

\* urlsplit(url, default_scheme): scheme, netloc, path, query, fragment
UrlSplit(url, default_scheme) ==
    UrlSplitNetloc(IF AfterScheme(url) = url THEN default_scheme ELSE SchemeOf(url),
                   AfterScheme(url))

\* urlunsplit, for a scheme of uses_netloc
UrlUnsplit(u) ==
    LET p1 == IF u.path # "" /\ ~StartsWith(u.path, "/") THEN "/" \o u.path ELSE u.path
        p2 == "//" \o u.netloc \o p1
        p3 == IF u.scheme # "" THEN u.scheme \o ":" \o p2 ELSE p2
        p4 == IF u.query # "" THEN p3 \o "?" \o u.query ELSE p3
    IN  IF u.fragment # "" THEN p4 \o "#" \o u.fragment ELSE p4

RECURSIVE SplitSlash(_)
\* path.split('/')
SplitSlash(path) ==
    LET i == Find(path, "/")
    IN  IF i = 0 THEN <<path>>
        ELSE <<SubSeq(path, 1, i - 1)>> \o SplitSlash(From(path, i + 1))

RECURSIVE ResolveSegments(_, _)
\* the dot-segment loop of urljoin over the remaining segments
ResolveSegments(segments, resolved) ==
    IF segments = <<>> THEN resolved
    ELSE IF Head(segments) = ".."
    THEN ResolveSegments(Tail(segments),
                         IF resolved = <<>> THEN resolved
                         ELSE SubSeq(resolved, 1, Len(resolved) - 1))
    ELSE IF Head(segments) = "." THEN ResolveSegments(Tail(segments), resolved)
    ELSE ResolveSegments(Tail(segments), Append(resolved, Head(segments)))

\* segments[1:-1] = filter(None, segments[1:-1])
DropEmptyInner(segments) ==
    IF Len(segments) <= 2 THEN segments
    ELSE <<segments[1]>>
         \o SelectSeq(SubSeq(segments, 2, Len(segments) - 1), LAMBDA x : x # "")
         \o <<segments[Len(segments)]>>

\* urljoin: the path of url resolved against the directory of the base path
UrljoinPath(b, u) ==
    LET bp0        == SplitSlash(b.path)
        base_parts == IF bp0[Len(bp0)] # "" THEN SubSeq(bp0, 1, Len(bp0) - 1)
                      ELSE bp0
        segments   == IF StartsWith(u.path, "/") THEN SplitSlash(u.path)
                      ELSE DropEmptyInner(base_parts \o SplitSlash(u.path))
        res0       == ResolveSegments(segments, <<>>)
        resolved   == IF segments[Len(segments)] \in {".", ".."}
                      THEN Append(res0, "") ELSE res0
        joined     == Join(resolved, "/")
    IN  UrlUnsplit([scheme |-> u.scheme, netloc |-> b.netloc,
                    path |-> IF joined = "" THEN "/" ELSE joined,
                    query |-> u.query, fragment |-> u.fragment])

\* urljoin, given the split base b and the split url u
UrljoinSplit(base, url, b, u) ==
    IF base = "" THEN url
    ELSE IF url = "" THEN base
    ELSE IF u.scheme # b.scheme \/ u.scheme \notin UsesRelative THEN url
    ELSE IF u.netloc # "" THEN UrlUnsplit(u)
    ELSE IF u.path = ""
    THEN UrlUnsplit([scheme |-> u.scheme, netloc |-> b.netloc, path |-> b.path,
                     query |-> IF u.query = "" THEN b.query ELSE u.query,
                     fragment |-> u.fragment])
    ELSE UrljoinPath(b, u)

\* urljoin(base, url)
Urljoin(base, url) ==
    UrljoinSplit(base, url, UrlSplit(base, ""), UrlSplit(url, UrlSplit(base, "").scheme))

(***************************************************************************)
(* tools.py: get_page_links_by_category                                    *)
(*                                                                         *)
(* A page response is what requests.get does for the URL:                  *)
(*   [outcome |-> "timeout" | "connection_error" | "error"]  (it raises),  *)
(*   [outcome |-> "response", status_code, anchors], anchors the result of *)
(*   soup.find_all('a', href=True): [href, text, rel] per element, text    *)
(*   the element's single text node, rel its list of rel tokens.           *)
(***************************************************************************)
\* the initial category structure
EmptyCategories ==
    [c \in CategoryNames |->
        [description |-> (CHOOSE r \in Range(LINK_CATEGORIES) : r.name = c).description,
         links |-> <<>>, count |-> 0]]

\* convert relative URLs to absolute
AbsoluteUrl(url, href) ==
    IF StartsWith(href, "/") THEN Urljoin(url, href)
    ELSE IF ~StartsWith(href, "http") THEN Urljoin(url, href)
    ELSE href

\* skip empty hrefs, javascript: and mailto:
SkippedHref(href) ==
    href = "" \/ StartsWith(href, "javascript:") \/ StartsWith(href, "mailto:")

\* variant: the append without the count increment
AddToBucket_noCount(categorized_links, category, link_data) ==
    [categorized_links EXCEPT ![category].links = Append(@, link_data)]

\* append link_data to the bucket and increment its count
AddToBucket(categorized_links, category, link_data) ==
    [categorized_links EXCEPT ![category].links = Append(@, link_data),
                              ![category].count = @ + 1]

\* one iteration of the loop over the anchors
ProcessAnchor(categorized_links, link, url, page_domain) ==
    LET href        == Strip(link.href)
        anchor_text == Strip(link.text)
        found       == categorize_link(href, anchor_text, page_domain)
        link_data   == [url          |-> AbsoluteUrl(url, href),
                        anchor_text  |-> IF anchor_text # "" THEN anchor_text
                                         ELSE "[No text]",
                        is_nofollow  |-> "nofollow" \in Range(link.rel),
                        is_sponsored |-> "sponsored" \in Range(link.rel),
                        confidence   |-> found.confidence]
    IN  IF SkippedHref(href) THEN categorized_links
        ELSE AddToBucket(categorized_links, found.category, link_data)

RECURSIVE ExtractLinks(_, _, _, _)
\* the loop over soup.find_all('a', href=True)
ExtractLinks(anchors, categorized_links, url, page_domain) ==
    IF anchors = <<>> THEN categorized_links
    ELSE ExtractLinks(Tail(anchors),
                      ProcessAnchor(categorized_links, Head(anchors), url, page_domain),
                      url, page_domain)

RECURSIVE SumCounts(_, _)
\* sum(cat['count'] for cat in categorized_links.values())
SumCounts(categorized_links, names) ==
    IF names = {} THEN 0
    ELSE LET c == CHOOSE x \in names : TRUE
         IN  categorized_links[c].count + SumCounts(categorized_links, names \ {c})

\* str(e) of the HTTPError raise_for_status raises
HttpErrorText(status_code, url) ==
    ToString(status_code) \o
    (IF status_code < 500 THEN " Client Error" ELSE " Server Error") \o
    " for url: " \o url

\* variant: a generic failure without its message
PageErrorOther_noMessage(url, error_str) ==
    [error |-> error_str, page_url |-> url]

\* except Exception: the generic failure result
PageErrorOther(url, error_str) ==
    [error    |-> error_str,
     page_url |-> url,
     message  |-> "Failed to extract links from " \o url \o ": " \o error_str \o
                  ". Make sure the URL is accessible and returns HTML content."]

get_page_links_by_category(url, page) ==
    IF page.outcome = "timeout"
    THEN [error    |-> "Request Timeout",
          page_url |-> url,
          message  |-> "The request to " \o url \o " timed out. The server took too " \o
                       "long to respond. Try again or check if the URL is correct.",
          timeout  |-> TRUE]
    ELSE IF page.outcome = "connection_error"
    THEN [error    |-> "Connection Error",
          page_url |-> url,
          message  |-> "Could not connect to " \o url \o ". Please check if the URL " \o
                       "is correct and the website is accessible.",
          connection_error |-> TRUE]
    ELSE IF page.outcome # "response"
    THEN PageErrorOther(url, "request failed")
    ELSE IF page.status_code = 403
    THEN [error    |-> "403 Forbidden",
          page_url |-> url,
          message  |-> "This website is blocking automated access (403 Forbidden). " \o
                       "The site may use protection services like Cloudflare or " \o
                       "Akamai that prevent web scrapers. Try accessing the site " \o
                       "directly in a browser.",
          status_code   |-> 403,
          access_blocked |-> TRUE]
    ELSE IF page.status_code >= 400
    THEN PageErrorOther(url, HttpErrorText(page.status_code, url))
    ELSE
        LET page_domain       == Replace(Netloc(url), "www.", "")
            categorized_links == ExtractLinks(page.anchors, EmptyCategories, url,
                                              page_domain)
        IN  [page_url    |-> url,
             page_domain |-> page_domain,
             total_links |-> SumCounts(categorized_links, CategoryNames),
             categories  |-> categorized_links]

(***************************************************************************)
(* tools.py: parse_sitemap                                                 *)
(*                                                                         *)
(* docs maps a sitemap URL to what fetching and parsing it gives:          *)
(*   [outcome |-> "error"]  requests.get, raise_for_status or the XML      *)
(*                          parser raises (a URL outside docs does too),   *)
(*   [outcome |-> "ok", sitemaps, urls]  the <loc> texts of the root's     *)
(*                          <sitemap> and <url> children, "" for a missing *)
(*                          or empty <loc>.                                *)
(* The result is a list of strings or the dict {"error": ...}.             *)
(***************************************************************************)
SITEMAP_MAX_URLS == 1000
MAX_PAGES_TO_CRAWL == 50

\* nesting depth at which the interpreter raises RecursionError
RecursionDepth == 3

\* seq[:n]
SliceTo(seq, n) ==
    IF n >= 0 THEN SubSeq(seq, 1, Min(n, Len(seq)))
    ELSE SubSeq(seq, 1, Max(0, Len(seq) + n))

SitemapError(text) == [error |-> "Failed to parse sitemap: " \o text]

\* whether fetching and parsing the sitemap raises inside parse_sitemap, which
\* then returns the error dict instead of a list
SitemapFails(docs, sitemap_url, depth) ==
    \/ depth >= RecursionDepth
    \/ sitemap_url \notin DOMAIN docs
    \/ docs[sitemap_url].outcome # "ok"

\* list(d) of the error dict d: its keys
KeysOf(d) == <<"error">>

\* the loop over the <url> entries: every non-empty <loc> is appended until
\* the list holds SITEMAP_MAX_URLS elements
AppendLocs(locs) ==
    SliceTo(SelectSeq(locs, LAMBDA loc : loc # ""), SITEMAP_MAX_URLS)

\* urls.extend(nested_urls): extending by a dict (is_dict) appends its keys
Extend(acc, nested_urls, is_dict) ==
    IF is_dict THEN acc \o KeysOf(nested_urls) ELSE acc \o nested_urls

RECURSIVE parse_sitemap(_, _, _)
RECURSIVE ParseNested(_, _, _, _)

\* the loop over the <sitemap> entries of a sitemap index
ParseNested(docs, locs, acc, depth) ==
    IF locs = <<>> THEN acc
    ELSE IF Head(locs) = "" THEN ParseNested(docs, Tail(locs), acc, depth)
    ELSE LET acc2 == Extend(acc, parse_sitemap(docs, Head(locs), depth + 1),
                            SitemapFails(docs, Head(locs), depth + 1))
         IN  IF Len(acc2) >= SITEMAP_MAX_URLS THEN acc2
             ELSE ParseNested(docs, Tail(locs), acc2, depth)

\* variant: the list of a sitemap index is returned without the final slice
parse_sitemap_noSlice(docs, sitemap_url, depth) ==
    IF depth >= RecursionDepth
    THEN SitemapError("maximum recursion depth exceeded")
    ELSE IF sitemap_url \notin DOMAIN docs \/ docs[sitemap_url].outcome # "ok"
    THEN SitemapError("cannot fetch or parse " \o sitemap_url)
    ELSE LET doc == docs[sitemap_url]
         IN  IF doc.sitemaps # <<>>
             THEN ParseNested(docs, doc.sitemaps, <<>>, depth)
             ELSE SliceTo(AppendLocs(doc.urls), SITEMAP_MAX_URLS)

parse_sitemap(docs, sitemap_url, depth) ==
    IF depth >= RecursionDepth
    THEN SitemapError("maximum recursion depth exceeded")
    ELSE IF sitemap_url \notin DOMAIN docs \/ docs[sitemap_url].outcome # "ok"
    THEN SitemapError("cannot fetch or parse " \o sitemap_url)
    ELSE LET doc == docs[sitemap_url]
         IN  IF doc.sitemaps # <<>>
             THEN SliceTo(ParseNested(docs, doc.sitemaps, <<>>, depth), SITEMAP_MAX_URLS)
             ELSE SliceTo(AppendLocs(doc.urls), SITEMAP_MAX_URLS)

(***************************************************************************)
(* tools.py: crawl_sitemap_pages                                           *)
(***************************************************************************)
EmptySummary ==
    [c \in CategoryNames |->
        [description |-> (CHOOSE r \in Range(LINK_CATEGORIES) : r.name = c).description,
         total_count |-> 0, pages_with_this_category |-> 0]]

\* max_pages, defaulted when the argument is omitted or None (no max_pages key)
MaxPagesOf(a) == IF "max_pages" \in DOMAIN a THEN a.max_pages ELSE MAX_PAGES_TO_CRAWL

\* urls_to_crawl = urls[:max_pages]
UrlsToCrawl(parsed, a) == SliceTo(parsed, MaxPagesOf(a))

\* the pages entry of a page fetched without error
PageEntry(page_number, page_url, page_data) ==
    [page_number |-> page_number, page_url |-> page_url,
     total_links |-> page_data.total_links, categories |-> page_data.categories]

\* variant: a page counts for a category of which it has no link
AddToSummary_everyPage(summary, categories) ==
    [c \in DOMAIN summary |->
        IF c \in DOMAIN categories
        THEN [summary[c] EXCEPT !.total_count = @ + categories[c].count,
                                !.pages_with_this_category = @ + 1]
        ELSE summary[c]]

\* update category summary
AddToSummary(summary, categories) ==
    [c \in DOMAIN summary |->
        IF c \in DOMAIN categories /\ categories[c].count > 0
        THEN [summary[c] EXCEPT !.total_count = @ + categories[c].count,
                                !.pages_with_this_category = @ + 1]
        ELSE summary[c]]

\* the sitemap report
CrawlReport(sitemap_url, parsed, pages, summary) ==
    [sitemap_url            |-> sitemap_url,
     total_pages_crawled    |-> Len(pages),
     total_pages_in_sitemap |-> Len(parsed),
     category_summary       |-> summary,
     pages                  |-> pages]

(***************************************************************************)
(* agent.py: the link-categorization workflow                              *)
(*   setup -> collect -> analyze -> reporter                               *)
(* A node returns a partial state; the workflow overwrites those keys.     *)
(***************************************************************************)
EmptyDict == <<>>

\* the state with the keys of `update` overwritten
Merge(st, update) ==
    [k \in DOMAIN st \cup DOMAIN update |->
        IF k \in DOMAIN update THEN update[k] ELSE st[k]]

node_links_setup(st) ==
    [links_data |-> EmptyDict, categorized_report |-> EmptyDict, errors |-> <<>>]

\* get_page_links_by_category catches every exception, so the except branch
\* of this node is never taken
node_collect_and_categorize_links(st, page) ==
    [links_data |-> get_page_links_by_category(st.url, page)]

\* categories.get(name, {}).get("count", 0)
CountOf(categories, name) ==
    IF name \in DOMAIN categories THEN Get(categories[name], "count", 0) ELSE 0

RECURSIVE AllLinksFrom(_, _)
\* all_links: the links of every category, in categories.values() order
AllLinksFrom(categories, i) ==
    IF i > Len(LINK_CATEGORIES) THEN <<>>
    ELSE (IF LINK_CATEGORIES[i].name \in DOMAIN categories
          THEN Get(categories[LINK_CATEGORIES[i].name], "links", <<>>)
          ELSE <<>>)
         \o AllLinksFrom(categories, i + 1)

\* variant: only an empty anchor_text counts, the marker does not
NoAnchorText_emptyOnly(all_links) ==
    Len(SelectSeq(all_links, LAMBDA link : Get(link, "anchor_text", "") = ""))

\* links whose anchor_text is "" or "[No text]"
NoAnchorText(all_links) ==
    Len(SelectSeq(all_links,
                  LAMBDA link : Get(link, "anchor_text", "") \in {"", "[No text]"}))

\* variant: a legal-links bonus of 3
RawQualityScore_legal3(n) ==
    LET s0 == 70
        s1 == s0 + (IF n.nav_count >= 5 THEN 5 ELSE 0)
        s2 == s1 + (IF n.social_count > 0 THEN 3 ELSE 0)
        s3 == s2 + (IF n.legal_count > 0 THEN 3 ELSE 0)
        s4 == s3 + (IF n.business_count >= 10 THEN 5 ELSE 0)
        s5 == s4 + (IF /\ 1000 * n.external_count >= 2 * n.total_links
                       /\ 100 * n.external_count <= 30 * n.total_links THEN 7 ELSE 0)
        s6 == s5 + (IF n.no_anchor_text = 0 THEN 5 ELSE 0)
        s7 == s6 - (IF n.nav_count = 0 THEN 10 ELSE 0)
        s8 == s7 - (IF n.legal_count = 0 THEN 5 ELSE 0)
        s9 == s8 - (IF 100 * n.external_count > 70 * n.total_links THEN 10 ELSE 0)
    IN  s9 - (IF 5 * n.no_anchor_text > n.total_links THEN 10 ELSE 0)

\* The score before clamping, from the counts n.  external_percentage is
\* external_count / total_links * 100 in floating point; its comparisons with
\* 0.2, 30 and 70, and no_anchor_text > total_links * 0.2, are taken on the
\* exact ratios (the two agree for every total_links up to 2000).
RawQualityScore(n) ==
    LET s0 == 70
        s1 == s0 + (IF n.nav_count >= 5 THEN 5 ELSE 0)
        s2 == s1 + (IF n.social_count > 0 THEN 3 ELSE 0)
        s3 == s2 + (IF n.legal_count > 0 THEN 5 ELSE 0)
        s4 == s3 + (IF n.business_count >= 10 THEN 5 ELSE 0)
        s5 == s4 + (IF /\ 1000 * n.external_count >= 2 * n.total_links
                       /\ 100 * n.external_count <= 30 * n.total_links THEN 7 ELSE 0)
        s6 == s5 + (IF n.no_anchor_text = 0 THEN 5 ELSE 0)
        s7 == s6 - (IF n.nav_count = 0 THEN 10 ELSE 0)
        s8 == s7 - (IF n.legal_count = 0 THEN 5 ELSE 0)
        s9 == s8 - (IF 100 * n.external_count > 70 * n.total_links THEN 10 ELSE 0)
    IN  s9 - (IF 5 * n.no_anchor_text > n.total_links THEN 10 ELSE 0)

\* the score of a page's link data, before clamping
RawScoreOf(data) ==
    LET categories == Get(data, "categories", EmptyDict)
    IN  RawQualityScore([nav_count      |-> CountOf(categories, "navigation"),
                         social_count   |-> CountOf(categories, "social"),
                         legal_count    |-> CountOf(categories, "legal"),
                         business_count |-> CountOf(categories, "business"),
                         external_count |-> CountOf(categories, "external"),
                         no_anchor_text |-> NoAnchorText(AllLinksFrom(categories, 1)),
                         total_links    |-> Get(data, "total_links", 0)])

\* the report of a page with links; the insight, warning and recommendation
\* texts and the per-category percentages (formatted floating-point numbers)
\* are left out: they do not feed the score or the counts
LinkReport(data) ==
    LET total_links    == Get(data, "total_links", 0)
        categories     == Get(data, "categories", EmptyDict)
        external_count == CountOf(categories, "external")
    IN  [summary |-> "Analyzed " \o ToString(total_links) \o
                     " links across 7 categories from " \o Get(data, "page_domain", ""),
         link_quality_score  |-> Max(0, Min(100, RawScoreOf(data))),
         total_links         |-> total_links,
         internal_links      |-> total_links - external_count,
         external_links      |-> external_count,
         detailed_categories |-> categories]

\* the report of a page on which no link was found
NoLinksReport ==
    [summary  |-> "No links detected",
     insights |-> <<"No links found on this page.">>,
     warnings |-> <<"Pages with no links may have poor user experience and limited SEO value.">>]

\* variant: the no-links report also for a page with one link
node_analyze_link_categories_scoreFrom2(st) ==
    LET data == st.links_data
    IN  IF st.errors # <<>>
        THEN [categorized_report |-> [error |-> st.errors[1]]]
        ELSE IF "error" \in DOMAIN data
        THEN [errors |-> <<data.error>>, categorized_report |-> [error |-> data.error]]
        ELSE IF Get(data, "total_links", 0) <= 1
        THEN [categorized_report |-> NoLinksReport]
        ELSE [categorized_report |-> LinkReport(data)]

\* node_analyze_link_categories: the update it returns for state st
node_analyze_link_categories(st) ==
    LET data == st.links_data
    IN  IF st.errors # <<>>
        THEN [categorized_report |-> [error |-> st.errors[1]]]
        ELSE IF "error" \in DOMAIN data
        THEN [errors |-> <<data.error>>, categorized_report |-> [error |-> data.error]]
        ELSE IF Get(data, "total_links", 0) = 0
        THEN [categorized_report |-> NoLinksReport]
        ELSE [categorized_report |-> LinkReport(data)]

node_links_report_generator(st) ==
    [categorized_report |->
        [type     |-> "link_categorization_analysis",
         url      |-> Get(st, "url", ""),
         report   |-> Get(st, "categorized_report", EmptyDict),
         raw_data |-> Get(st, "links_data", EmptyDict),
         errors   |-> Get(st, "errors", <<>>)]]

(***************************************************************************)
(* main.py: run_link_categorization_agent, after the workflow has run      *)
(***************************************************************************)
\* one entry of all_links
FlatLink(link, category_name) ==
    [url          |-> Get(link, "url", ""),
     anchor_text  |-> Get(link, "anchor_text", "[No text]"),
     category     |-> category_name,
     is_internal  |-> Get(link, "is_internal", FALSE),
     is_nofollow  |-> Get(link, "is_nofollow", FALSE),
     is_sponsored |-> Get(link, "is_sponsored", FALSE),
     target       |-> Get(link, "target", "")]

RECURSIVE FlattenLinks(_, _)
\* all_links over detailed_categories.items(), in dict order
FlattenLinks(detailed_categories, i) ==
    IF i > Len(LINK_CATEGORIES) THEN <<>>
    ELSE LET name == LINK_CATEGORIES[i].name
         IN  (IF name \in DOMAIN detailed_categories
              THEN LET links == Get(detailed_categories[name], "links", <<>>)
                   IN  [j \in 1..Len(links) |-> FlatLink(links[j], name)]
              ELSE <<>>)
             \o FlattenLinks(detailed_categories, i + 1)

\* links_in_category[:3]
FirstThree(links) == SubSeq(links, 1, Min(3, Len(links)))

LinkCategorizationResponse(final_report) ==
    IF "report" \notin DOMAIN final_report THEN final_report
    ELSE
        LET actual_report == final_report.report
        IN  IF /\ "success" \in DOMAIN actual_report
               /\ actual_report.success = FALSE
               /\ "error" \in DOMAIN actual_report
            THEN [total_links |-> 0, internal_links |-> 0, external_links |-> 0,
                  quality_score |-> 0, categories |-> EmptyDict, insights |-> <<>>,
                  warnings |-> <<Get(actual_report, "message",
                                     Get(actual_report, "error", "Failed to fetch links"))>>,
                  recommendations |-> <<>>, all_links |-> <<>>,
                  error |-> actual_report.error,
                  access_blocked |-> Get(actual_report, "access_blocked", FALSE)]
            ELSE
                LET detailed_categories ==
                        Get(actual_report, "detailed_categories", EmptyDict)
                IN  [total_links     |-> Get(actual_report, "total_links", 0),
                     internal_links  |-> Get(actual_report, "internal_links", 0),
                     external_links  |-> Get(actual_report, "external_links", 0),
                     quality_score   |-> Get(actual_report, "link_quality_score", 0),
                     categories      |->
                        [c \in DOMAIN detailed_categories |->
                            [count |-> Get(detailed_categories[c], "count", 0),
                             examples |-> FirstThree(Get(detailed_categories[c],
                                                         "links", <<>>))]],
                     insights        |-> Get(actual_report, "insights", <<>>),
                     warnings        |-> Get(actual_report, "warnings", <<>>),
                     recommendations |-> Get(actual_report, "recommendations", <<>>),
                     summary         |-> Get(actual_report, "summary", ""),
                     all_links       |-> FlattenLinks(detailed_categories, 1)]

(***************************************************************************)
(* tools.py: detect_toxic_characteristics                                  *)
(***************************************************************************)
\* The running (toxicity_score, reasons) pair after one check
AddSignal(acc, fires, weight, reason) ==
    IF fires
    THEN [score |-> acc.score + weight, reasons |-> Append(acc.reasons, reason)]
    ELSE acc

\* variant: the two authority rows are tested one after the other, so a very
\* low authority adds both weights
ToxicCheckDA_bothRows(acc, domain_authority) ==
    AddSignal(AddSignal(acc, domain_authority < 10, TOXICITY_WEIGHTS.very_low_da,
                        "Very low domain authority (likely low-quality site)"),
              domain_authority < 20, TOXICITY_WEIGHTS.low_da, "Low domain authority")

\* Check 1: domain authority (if / elif)
ToxicCheckDA(acc, domain_authority) ==
    IF domain_authority < 10
    THEN AddSignal(acc, TRUE, TOXICITY_WEIGHTS.very_low_da,
                   "Very low domain authority (likely low-quality site)")
    ELSE IF domain_authority < 20
    THEN AddSignal(acc, TRUE, TOXICITY_WEIGHTS.low_da, "Low domain authority")
    ELSE acc

\* Checks 2 and 3: domain name and TLD
ToxicCheckDomain(acc, domain) ==
    LET domain_lower == Lower(domain)
        a2 == AddSignal(acc,
                        \E ind \in Range(SPAM_INDICATORS) : Contains(domain_lower, ind),
                        TOXICITY_WEIGHTS.suspicious_domain,
                        "Suspicious domain name pattern detected")
    IN  AddSignal(a2,
                  \E tld \in Range(SUSPICIOUS_TLDS) : EndsWith(domain_lower, tld),
                  TOXICITY_WEIGHTS.suspicious_tld,
                  "Suspicious TLD (.biz, .info, etc.)")

\* Check 4: keyword stuffing, spam keyword in the anchor text
ToxicCheckAnchor(acc, anchor_text) ==
    LET a4 == AddSignal(acc,
                        anchor_text # "" /\ WordCount(anchor_text) > 4,
                        TOXICITY_WEIGHTS.keyword_stuffing,
                        "Unusually long anchor text (potential keyword stuffing)")
    IN  AddSignal(a4,
                  anchor_text # "" /\
                    \E ind \in Range(SPAM_INDICATORS) : Contains(Lower(anchor_text), ind),
                  TOXICITY_WEIGHTS.spam_keywords,
                  "Spam keyword detected in anchor text")

\* Check 5: page type
ToxicCheckPageType(acc, page_type) ==
    AddSignal(acc, page_type \in {"comment", "forum", "blog_spam"},
              TOXICITY_WEIGHTS.risky_page_type,
              "Risky page type: " \o page_type \o " (often associated with spam)")

\* Check 6: generic anchor text
ToxicCheckGeneric(acc, anchor_text) ==
    AddSignal(acc,
              anchor_text # "" /\ Lower(anchor_text) \in Range(GENERIC_ANCHORS),
              TOXICITY_WEIGHTS.generic_anchor,
              "Generic anchor text (natural links typically have descriptive anchors)")

\* variant: the low band starting at TOXICITY_LOW
ToxicSeverity_lowAt20(toxicity_score) ==
    IF toxicity_score >= TOXICITY_HIGH THEN "high"
    ELSE IF toxicity_score >= TOXICITY_MEDIUM THEN "medium"
    ELSE IF toxicity_score >= TOXICITY_LOW THEN "low"
    ELSE None

\* severity from the summed score
ToxicSeverity(toxicity_score) ==
    IF toxicity_score >= TOXICITY_HIGH THEN "high"
    ELSE IF toxicity_score >= TOXICITY_MEDIUM THEN "medium"
    ELSE IF toxicity_score >= TOXICITY_WEIGHTS.generic_anchor THEN "low"
    ELSE None

\* variant: the scorer without the TLD check
detect_toxic_characteristics_noTld(domain, anchor_text, page_type, domain_authority) ==
    LET a1 == ToxicCheckDA([score |-> 0, reasons |-> <<>>], domain_authority)
        a2 == AddSignal(a1,
                        \E ind \in Range(SPAM_INDICATORS) : Contains(Lower(domain), ind),
                        TOXICITY_WEIGHTS.suspicious_domain,
                        "Suspicious domain name pattern detected")
        a4 == ToxicCheckAnchor(a2, anchor_text)
        a5 == ToxicCheckPageType(a4, page_type)
        a6 == ToxicCheckGeneric(a5, anchor_text)
        severity == ToxicSeverity(a6.score)
    IN  [ is_toxic |-> severity # None,
          severity |-> severity,
          reason   |-> IF a6.reasons # <<>> THEN Join(a6.reasons, " | ")
                       ELSE "Unknown risk factor",
          score    |-> a6.score ]

\* (is_toxic, severity, reason, toxicity_score)
detect_toxic_characteristics(domain, anchor_text, page_type, domain_authority) ==
    LET a1 == ToxicCheckDA([score |-> 0, reasons |-> <<>>], domain_authority)
        a3 == ToxicCheckDomain(a1, domain)
        a4 == ToxicCheckAnchor(a3, anchor_text)
        a5 == ToxicCheckPageType(a4, page_type)
        a6 == ToxicCheckGeneric(a5, anchor_text)
        severity == ToxicSeverity(a6.score)
    IN  [ is_toxic |-> severity # None,
          severity |-> severity,
          reason   |-> IF a6.reasons # <<>> THEN Join(a6.reasons, " | ")
                       ELSE "Unknown risk factor",
          score    |-> a6.score ]

(***************************************************************************)
(* Specification of one call of detect_toxic_characteristics               *)
(***************************************************************************)
ToxicDomains ==
    { "example.com", "free-casino-bonus.biz", "CASINO.TK", "biz.example.info" }

ToxicAnchors ==
    { "", " ", "click here", "Click Here", "here", "click here now",
      "best seo tools", "one two three four five",
      "buy cheap viagra online now today", "Casino", "weight loss",
      "weight  loss", "a b c d" }

ToxicPageTypes == { "article", "comment", "forum", "blog_spam", "homepage" }

ToxicAuthorities == { 5, 9, 10, 19, 20, 60 }

InitToxic ==
    /\ pc = "toxic_call"
    /\ args \in [ domain : ToxicDomains, anchor_text : ToxicAnchors,
                  page_type : ToxicPageTypes, domain_authority : ToxicAuthorities ]
    /\ ret = None
    /\ NoWeb /\ NoAgent /\ NoCrawl

CallDetectToxic ==
    /\ pc = "toxic_call"
    /\ ret' = detect_toxic_characteristics(args.domain, args.anchor_text,
                                           args.page_type, args.domain_authority)
    /\ pc' = "toxic_return"
    /\ UNCHANGED <<args, web, served, agentVars, crawlVars>>

NextToxic == CallDetectToxic

SpecToxic == InitToxic /\ [][NextToxic]_vars

\* Inputs of the monotonicity check: every anchor shape, fewer other fields
InitToxicMono ==
    /\ pc = "toxic_call"
    /\ args \in [ domain : {"example.com", "free-casino-bonus.biz"},
                  anchor_text : ToxicAnchors,
                  page_type : {"article", "forum"},
                  domain_authority : {5, 15, 60} ]
    /\ ret = None
    /\ NoWeb /\ NoAgent /\ NoCrawl

SpecToxicMono == InitToxicMono /\ [][NextToxic]_vars

(***************************************************************************)
(* Claims on detect_toxic_characteristics                                  *)
(***************************************************************************)
RECURSIVE SumWeights(_)
SumWeights(rows) == IF rows = <<>> THEN 0 ELSE rows[1].weight + SumWeights(Tail(rows))

HasSpamKeyword(s) == \E k \in Range(SPAM_INDICATORS) : Contains(Lower(s), k)

\* The signal table of the scorer, in evaluation order, for one link
ToxicSignalTable(a) ==
    << [holds  |-> a.domain_authority < 10, weight |-> 40,
        reason |-> "Very low domain authority (likely low-quality site)"],
       [holds  |-> 10 <= a.domain_authority /\ a.domain_authority < 20, weight |-> 20,
        reason |-> "Low domain authority"],
       [holds  |-> HasSpamKeyword(a.domain), weight |-> 50,
        reason |-> "Suspicious domain name pattern detected"],
       [holds  |-> \E t \in Range(SUSPICIOUS_TLDS) : EndsWith(Lower(a.domain), t),
        weight |-> 15,
        reason |-> "Suspicious TLD (.biz, .info, etc.)"],
       [holds  |-> WordCount(a.anchor_text) > 4, weight |-> 20,
        reason |-> "Unusually long anchor text (potential keyword stuffing)"],
       [holds  |-> HasSpamKeyword(a.anchor_text), weight |-> 25,
        reason |-> "Spam keyword detected in anchor text"],
       [holds  |-> a.page_type \in {"comment", "forum", "blog_spam"}, weight |-> 30,
        reason |-> "Risky page type: " \o a.page_type \o " (often associated with spam)"],
       [holds  |-> \E g \in Range(GENERIC_ANCHORS) : Lower(a.anchor_text) = g,
        weight |-> 15,
        reason |-> "Generic anchor text (natural links typically have descriptive anchors)"] >>

HeldSignals(a) == SelectSeq(ToxicSignalTable(a), LAMBDA r : r.holds)

\* C6: the returned score is exactly the sum of the weights of the table's
\* conditions that hold for the link (letter case ignored in the keyword, TLD
\* and generic-phrase tests), and the returned reason is the " | "-join of one
\* entry per holding condition, in evaluation order (when none holds the code
\* returns the placeholder "Unknown risk factor").
C6_ScoreIsSumOfHeldWeights ==
    pc = "toxic_return" =>
        LET held == HeldSignals(args)
        IN  /\ ret.score = SumWeights(held)
            /\ ret.reason = IF held = <<>> THEN "Unknown risk factor"
                            ELSE Join([i \in 1..Len(held) |-> held[i].reason], " | ")

\* C6 witness: very low DA, spam domain, flagged TLD and generic anchor at once
C6_Witness ==
    /\ pc = "toxic_return"
    /\ args.domain = "free-casino-bonus.biz"
    /\ args.anchor_text = "click here"
    /\ args.domain_authority = 5
    /\ args.page_type = "article"
    /\ ret.score = 120
    /\ Len(HeldSignals(args)) = 4

ExtendAnchor(a, k) == IF a = "" THEN k ELSE a \o " " \o k

\* C8: extending the anchor text by any spam keyword never lowers the score
\* of an otherwise identical link.
C8_SpamKeywordMonotonic ==
    pc = "toxic_return" =>
        \A k \in Range(SPAM_INDICATORS) :
            detect_toxic_characteristics(args.domain, ExtendAnchor(args.anchor_text, k),
                                         args.page_type, args.domain_authority).score
                >= ret.score

\* C8 witness: a generic anchor, which loses its generic weight when extended
C8_Witness ==
    /\ pc = "toxic_return"
    /\ args.anchor_text = "click here"
    /\ args.domain = "example.com"
    /\ args.domain_authority = 60
    /\ args.page_type = "article"
    /\ ret.score = 15
    /\ detect_toxic_characteristics(args.domain, ExtendAnchor(args.anchor_text, "casino"),
                                    args.page_type, args.domain_authority).score = 25

(***************************************************************************)
(* Specification of one call of categorize_link                            *)
(***************************************************************************)
LinkOrigins ==
    { "", "https://example.com", "https://www.example.com", "http://other.com",
      "https://www.www.example.com", "//cdn.other.com", "HTTPS://Example.com",
      "https://www." }

LinkPaths ==
    { "", "/", "/xyz", "/shop", "/Shop/Item-7", "/about-us", "/pricing", "/catalog",
      "/privacy-policy", "/team?tag=1", "#top" }

LinkAnchors == { "", "Home", "Buy now", "zzz", "Our Blog", "Contact support" }

PageDomains == { "example.com", "other.com" }

InitClassify ==
    /\ pc = "classify_call"
    /\ \E o \in LinkOrigins, p \in LinkPaths, a \in LinkAnchors, d \in PageDomains :
          args = [href |-> o \o p, anchor_text |-> a, page_domain |-> d]
    /\ ret = None
    /\ NoWeb /\ NoAgent /\ NoCrawl

CallCategorizeLink ==
    /\ pc = "classify_call"
    /\ ret' = categorize_link(args.href, args.anchor_text, args.page_domain)
    /\ pc' = "classify_return"
    /\ UNCHANGED <<args, web, served, agentVars, crawlVars>>

NextClassify == CallCategorizeLink

SpecClassify == InitClassify /\ [][NextClassify]_vars

(***************************************************************************)
(* Claims on categorize_link                                               *)
(***************************************************************************)
\* the host with one leading "www." stripped
StripLeadingWww(host) == IF StartsWith(host, "www.") THEN From(host, 5) ELSE host

\* C4: a link whose host, one leading "www." stripped, is non-empty and
\* differs from page_domain is ('external', 1.0) whatever its keywords; a link
\* whose stripped host is empty or equal to page_domain is never 'external'.
C4_ExternalIffHostDiffers ==
    pc = "classify_return" =>
        LET host == StripLeadingWww(Netloc(args.href))
        IN  IF host # "" /\ host # args.page_domain
            THEN ret = [category |-> "external", confidence |-> 10]
            ELSE ret.category # "external"

\* the declared scan order of the claim
DeclaredOrder ==
    << "navigation", "ecommerce", "product", "account", "support", "social", "legal",
       "content", "business", "careers", "media", "utility" >>

KeywordsOf(name) ==
    LET i == CHOOSE j \in 1..Len(LINK_CATEGORIES) : LINK_CATEGORIES[j].name = name
    IN  Range(LINK_CATEGORIES[i].keywords)

\* category `name` has a keyword that is a substring of the lowercased href or
\* of the lowercased anchor text
CategoryMatches(name, a) ==
    \E kw \in KeywordsOf(name) :
        Contains(Lower(a.href), kw) \/ Contains(Lower(a.anchor_text), kw)

\* C5: a link that is not external gets (c, 0.9), c the first category of the
\* declared order with a keyword in the lowercased href or anchor text, and
\* ('business', 0.5) when no category has one.
C5_FirstMatchingCategoryWins ==
    (pc = "classify_return" /\ ret.category # "external") =>
        LET hits == {i \in 1..Len(DeclaredOrder) : CategoryMatches(DeclaredOrder[i], args)}
        IN  IF hits = {}
            THEN ret = [category |-> "business", confidence |-> 5]
            ELSE /\ ret.confidence = 9
                 /\ \E i \in hits : /\ ret.category = DeclaredOrder[i]
                                    /\ \A j \in hits : i <= j

\* C5 witness: an internal link matched through its anchor text only, by two
\* categories (navigation and support), the earlier one winning
C5_Witness ==
    /\ pc = "classify_return"
    /\ args.href = "/xyz"
    /\ args.anchor_text = "Contact support"
    /\ CategoryMatches("support", args)
    /\ ret = [category |-> "navigation", confidence |-> 9]

(***************************************************************************)
(* Specification of one call of get_page_links_by_category                 *)
(***************************************************************************)
\* longest anchor list of a served page
MaxAnchors == 3

AnchorPool ==
    { [href |-> "/about", text |-> "About us", rel |-> <<>>],
      [href |-> " https://other.com/shop ", text |-> "Shop", rel |-> <<"nofollow">>],
      [href |-> "pricing.html", text |-> "  ", rel |-> <<"sponsored", "nofollow">>],
      [href |-> "http-guide.html", text |-> "Guide", rel |-> <<>>],
      [href |-> "javascript:void(0)", text |-> "Menu", rel |-> <<>>],
      [href |-> "mailto:team@example.com", text |-> "Mail", rel |-> <<>>],
      [href |-> " ", text |-> "Nothing", rel |-> <<>>] }

AnchorLists == UNION {[1..n -> AnchorPool] : n \in 0..MaxAnchors}

FailedResponses ==
    { [outcome |-> "timeout"], [outcome |-> "connection_error"], [outcome |-> "error"],
      [outcome |-> "response", status_code |-> 403, anchors |-> <<>>],
      [outcome |-> "response", status_code |-> 404, anchors |-> <<>>],
      [outcome |-> "response", status_code |-> 500, anchors |-> <<>>] }

PageUrls == { "https://www.example.com/docs/index.html" }

InitPage ==
    /\ pc = "page_call"
    /\ args \in [url : PageUrls]
    /\ web \in FailedResponses \cup
               {[outcome |-> "response", status_code |-> 200, anchors |-> a] :
                    a \in AnchorLists}
    /\ ret = None
    /\ served = <<>>
    /\ NoAgent /\ NoCrawl

CallGetPageLinks ==
    /\ pc = "page_call"
    /\ ret' = get_page_links_by_category(args.url, web)
    /\ pc' = "page_return"
    /\ UNCHANGED <<args, web, served, agentVars, crawlVars>>

NextPage == CallGetPageLinks

SpecPage == InitPage /\ [][NextPage]_vars

(***************************************************************************)
(* Claims on get_page_links_by_category                                    *)
(***************************************************************************)
\* the 13 taxonomy entries
Taxonomy ==
    { "navigation", "ecommerce", "product", "account", "support", "social", "legal",
      "content", "business", "careers", "external", "media", "utility" }

\* the anchors of the served page that the extraction does not skip, in order
KeptAnchors == SelectSeq(web.anchors, LAMBDA l : ~SkippedHref(Strip(l.href)))

\* the kept anchors that classify into category c, in order
AnchorsOfCategory(c) ==
    SelectSeq(KeptAnchors,
              LAMBDA l : categorize_link(Strip(l.href), Strip(l.text),
                                         ret.page_domain).category = c)

RECURSIVE SumOver(_, _)
SumOver(f, S) ==
    IF S = {} THEN 0 ELSE LET x == CHOOSE y \in S : TRUE IN f[x] + SumOver(f, S \ {x})

\* C3: a successful result has one bucket per taxonomy entry, every kept
\* anchor is in exactly one bucket (the bucket of its category holds the kept
\* anchors of that category, in page order, and no other), each bucket has
\* count == len(links), and total_links is the sum of the bucket counts.
C3_BucketsPartitionLinks ==
    (pc = "page_return" /\ "error" \notin DOMAIN ret) =>
        /\ DOMAIN ret.categories = Taxonomy
        /\ Cardinality(Taxonomy) = 13
        /\ \A c \in Taxonomy :
              LET b == ret.categories[c]
                  a == AnchorsOfCategory(c)
              IN  /\ b.count = Len(b.links)
                  /\ Len(b.links) = Len(a)
                  /\ \A i \in 1..Len(a) :
                        b.links[i].anchor_text =
                            (IF Strip(a[i].text) = "" THEN "[No text]"
                             ELSE Strip(a[i].text))
        /\ ret.total_links = SumOver([c \in Taxonomy |-> ret.categories[c].count], Taxonomy)
        /\ ret.total_links = Len(KeptAnchors)

\* C3 witness: a page with a skipped anchor and two non-empty buckets
C3_Witness ==
    /\ pc = "page_return"
    /\ "error" \notin DOMAIN ret
    /\ Len(web.anchors) = 3
    /\ ret.total_links = 2
    /\ ret.categories["external"].count = 1
    /\ ret.categories["navigation"].count = 1

(***************************************************************************)
(* Specification of one request to /agent/link-categorization              *)
(***************************************************************************)
\* n copies of an anchor
Copies(n, anchor) == [i \in 1..n |-> anchor]

Plain(href) == [href |-> href, text |-> "Link", rel |-> <<>>]

\* the first n anchors of the list with their text removed
Blanked(anchors, n) ==
    [i \in 1..Len(anchors) |->
        IF i <= n THEN [anchors[i] EXCEPT !.text = ""] ELSE anchors[i]]

\* most anchors without text on a served page
MaxBlank == 2

\* a page with the given number of links per category
PageOf(nav, social, legal, support, business, external, blank) ==
    Blanked(Copies(external, [href |-> "https://other.com/", text |-> "Other",
                              rel |-> <<"nofollow">>])
            \o Copies(nav, Plain("/about"))
            \o Copies(social, Plain("/twitter"))
            \o Copies(legal, Plain("/privacy"))
            \o Copies(support, Plain("/faq"))
            \o Copies(business, Plain("/xyz")),
            blank)

\* the last anchor of the list with the visible text "[No text]"
Labelled(anchors) ==
    [i \in 1..Len(anchors) |->
        IF i = Len(anchors) THEN [anchors[i] EXCEPT !.text = "[No text]"] ELSE anchors[i]]

AgentPages ==
    { PageOf(nav, social, legal, support, business, external, blank) :
        nav \in {0, 1, 5}, social \in {0, 1}, legal \in {0, 1}, support \in {0, 1},
        business \in {0, 10}, external \in {0, 1, 3}, blank \in 0..MaxBlank }
    \cup { Labelled(PageOf(nav, 0, legal, 0, 0, external, blank)) :
              nav \in {1, 5}, legal \in {0, 1}, external \in {0, 1}, blank \in {0, 1} }

InitAgent ==
    /\ pc = "setup"
    /\ args \in [url : {"https://www.example.com/"}]
    /\ web \in FailedResponses \cup
               {[outcome |-> "response", status_code |-> 200, anchors |-> a] :
                    a \in AgentPages}
    /\ state = [url |-> args.url, links_data |-> EmptyDict,
                categorized_report |-> EmptyDict, errors |-> <<>>]
    /\ response = None
    /\ ret = None
    /\ served = <<>>
    /\ NoCrawl

NodeSetup ==
    /\ pc = "setup"
    /\ state' = Merge(state, node_links_setup(state))
    /\ pc' = "collect"
    /\ UNCHANGED <<args, ret, web, served, response, crawlVars>>

NodeCollect ==
    /\ pc = "collect"
    /\ state' = Merge(state, node_collect_and_categorize_links(state, web))
    /\ pc' = "analyze"
    /\ UNCHANGED <<args, ret, web, served, response, crawlVars>>

NodeAnalyze ==
    /\ pc = "analyze"
    /\ state' = Merge(state, node_analyze_link_categories(state))
    /\ pc' = "reporter"
    /\ UNCHANGED <<args, ret, web, served, response, crawlVars>>

NodeReporter ==
    /\ pc = "reporter"
    /\ state' = Merge(state, node_links_report_generator(state))
    /\ pc' = "respond"
    /\ UNCHANGED <<args, ret, web, served, response, crawlVars>>

Respond ==
    /\ pc = "respond"
    /\ response' = LinkCategorizationResponse(state.categorized_report)
    /\ pc' = "responded"
    /\ UNCHANGED <<args, ret, web, served, state, crawlVars>>

NextAgent == NodeSetup \/ NodeCollect \/ NodeAnalyze \/ NodeReporter \/ Respond

SpecAgent == InitAgent /\ [][NextAgent]_vars

(***************************************************************************)
(* Specification of one call of parse_sitemap                              *)
(***************************************************************************)
RootUrl == "https://example.com/sitemap.xml"
SitemapA == "https://example.com/sitemap-a.xml"
SitemapB == "https://example.com/sitemap-b.xml"

\* <loc> count of the large sitemap
BigSize == 600

\* most <sitemap> entries of the root index
MaxChildren == 2

Failing == [outcome |-> "error"]
UrlSet(locs) == [outcome |-> "ok", sitemaps |-> <<>>, urls |-> locs]
Index(locs) == [outcome |-> "ok", sitemaps |-> locs, urls |-> <<>>]

\* a URL set of n pages under a sitemap's name
PagesOf(name, n) == [i \in 1..n |-> name \o "/page-" \o ToString(i)]

DocsA ==
    { Failing, UrlSet(PagesOf(SitemapA, 2)),
      UrlSet(<<SitemapA \o "/page-1", "", SitemapA \o "/shop">>),
      UrlSet(PagesOf(SitemapA, BigSize)) }

DocsB == { Failing, UrlSet(PagesOf(SitemapB, 1)), Index(<<SitemapA>>) }

ChildLists ==
    UNION {[1..n -> {SitemapA, SitemapB, RootUrl, ""}] : n \in 1..MaxChildren}

DocsRoot ==
    {Index(c) : c \in ChildLists} \cup {Failing, UrlSet(PagesOf(RootUrl, 3))}

SitemapWebs ==
    { [docs |-> (RootUrl :> r) @@ (SitemapA :> a) @@ (SitemapB :> b)] :
        r \in DocsRoot, a \in DocsA, b \in DocsB }

InitSitemap ==
    /\ pc = "sitemap_call"
    /\ args \in [sitemap_url : {RootUrl}]
    /\ web \in SitemapWebs
    /\ served = <<>>
    /\ ret = None
    /\ NoAgent /\ NoCrawl

CallParseSitemap ==
    /\ pc = "sitemap_call"
    /\ ret' = parse_sitemap(web.docs, args.sitemap_url, 0)
    /\ pc' = "sitemap_return"
    /\ UNCHANGED <<args, web, served, agentVars, crawlVars>>

NextSitemap == CallParseSitemap

SpecSitemap == InitSitemap /\ [][NextSitemap]_vars

(***************************************************************************)
(* Specification of one call of crawl_sitemap_pages                        *)
(***************************************************************************)
CrawlDocs ==
    { (RootUrl :> r) @@ (SitemapA :> a) @@ (SitemapB :> Failing) :
        r \in { Failing, UrlSet(PagesOf(RootUrl, 3)), Index(<<SitemapA, SitemapB>>) },
        a \in { Failing, UrlSet(PagesOf(SitemapA, 2)) } }

\* what a page fetch of the walk may be served
CrawlResponses ==
    { [outcome |-> "timeout"], [outcome |-> "connection_error"],
      [outcome |-> "response", status_code |-> 403, anchors |-> <<>>],
      [outcome |-> "response", status_code |-> 200, anchors |-> <<>>],
      [outcome |-> "response", status_code |-> 200,
       anchors |-> <<Plain("/about"), Plain("/home"), Plain("https://other.com/")>>] }

\* largest max_pages argument
MaxPagesArg == 3

\* an index of two large sitemaps, more than SITEMAP_MAX_URLS entries in all
BigCrawlDocs ==
    { (RootUrl :> Index(<<SitemapA, SitemapB>>))
      @@ (SitemapA :> UrlSet(PagesOf(SitemapA, BigSize)))
      @@ (SitemapB :> UrlSet(PagesOf(SitemapB, BigSize))) }

\* the large sitemap is walked with a max_pages of 0..MaxPagesArg only
InitCrawl ==
    /\ pc = "crawl_call"
    /\ \/ /\ args \in [sitemap_url : {RootUrl}] \cup
                      [sitemap_url : {RootUrl}, max_pages : (-1)..MaxPagesArg]
          /\ web \in {[docs |-> d] : d \in CrawlDocs}
       \/ /\ args \in [sitemap_url : {RootUrl}, max_pages : 0..MaxPagesArg]
          /\ web \in {[docs |-> d] : d \in BigCrawlDocs}
    /\ served = <<>>
    /\ ret = Unbound
    /\ NoCrawl
    /\ NoAgent

\* variant: the walk starts on the parse result even when it is the error dict
CrawlParse_walkOnError ==
    /\ pc = "crawl_call"
    /\ pc' = "crawl_loop"
    /\ urls' = IF SitemapFails(web.docs, args.sitemap_url, 0)
               THEN KeysOf(parse_sitemap(web.docs, args.sitemap_url, 0))
               ELSE parse_sitemap(web.docs, args.sitemap_url, 0)
    /\ all_pages_links' = <<>>
    /\ category_summary' = EmptySummary
    /\ UNCHANGED <<args, ret, web, served, idx, agentVars>>

\* parse the sitemap; return its error, or start the walk
CrawlParse ==
    /\ pc = "crawl_call"
    /\ LET parsed == parse_sitemap(web.docs, args.sitemap_url, 0)
       IN  IF SitemapFails(web.docs, args.sitemap_url, 0)
           THEN /\ pc' = "crawl_done"
                /\ urls' = parsed
                /\ ret' = parsed
                /\ UNCHANGED <<all_pages_links, category_summary>>
           ELSE /\ pc' = "crawl_loop"
                /\ urls' = parsed
                /\ all_pages_links' = <<>>
                /\ category_summary' = EmptySummary
                /\ UNCHANGED ret
    /\ UNCHANGED <<args, web, served, idx, agentVars>>

\* variant: the walk stops at the first page that fails
NextIndex_abortOnError(i, page_data, n) ==
    IF "error" \in DOMAIN page_data THEN n ELSE i + 1

\* the loop goes on to the next of the n selected URLs, whatever page_data is
NextIndex(i, page_data, n) == i + 1

\* one iteration of the loop over urls_to_crawl.  get_page_links_by_category
\* catches every exception, so the except branch of the loop is never taken.
CrawlPage ==
    /\ pc = "crawl_loop"
    /\ idx < Len(UrlsToCrawl(urls, args))
    /\ \E page \in CrawlResponses :
          LET page_url  == UrlsToCrawl(urls, args)[idx + 1]
              page_data == get_page_links_by_category(page_url, page)
          IN  /\ served' = Append(served, [url |-> page_url, page |-> page,
                                           page_data |-> page_data])
              /\ IF "error" \notin DOMAIN page_data
                 THEN /\ all_pages_links' =
                            Append(all_pages_links, PageEntry(idx + 1, page_url, page_data))
                      /\ category_summary' =
                            AddToSummary(category_summary, page_data.categories)
                 ELSE UNCHANGED <<all_pages_links, category_summary>>
              /\ idx' = NextIndex(idx, page_data, Len(UrlsToCrawl(urls, args)))
    /\ UNCHANGED <<pc, args, ret, web, urls, agentVars>>

\* the walk is over: return the report
CrawlReturn ==
    /\ pc = "crawl_loop"
    /\ idx = Len(UrlsToCrawl(urls, args))
    /\ pc' = "crawl_done"
    /\ ret' = CrawlReport(args.sitemap_url, urls, all_pages_links, category_summary)
    /\ UNCHANGED <<args, web, served, urls, idx, all_pages_links, category_summary,
                   agentVars>>

NextCrawl == CrawlParse \/ CrawlPage \/ CrawlReturn

SpecCrawl == InitCrawl /\ [][NextCrawl]_vars

\* The walk is sequential code in which every step ends (each fetch has a
\* timeout): a step that can be taken is taken.  Every step changes pc or idx.
SpecCrawlFair == SpecCrawl /\ WF_<<pc, idx>>(NextCrawl)

(***************************************************************************)
(* The link velocity estimate: tools.py calculate_intelligent_link_velocity *)
(***************************************************************************)
\* data_config.py keeps the growth range as fractions 0.05 and 0.15; the model
\* keeps rates in whole percents
LINK_VELOCITY_MIN_GROWTH == 5
LINK_VELOCITY_MAX_GROWTH == 15

\* the weights 3.0, 1.5 and 1.0 in tenths
AUTHORITY_WEIGHTS == [high |-> 30, medium |-> 15, low |-> 10]

ACCELERATION_ACCELERATING == 20
ACCELERATION_GROWING == 5
ACCELERATION_SLOWING == -5
ACCELERATION_DECLINING == -20

VELOCITY_STALLED_THRESHOLD == 1
VELOCITY_EXCELLENT_RATIO == 5
VELOCITY_GOOD_RATIO == 10

\* the acceleration threshold of the rapid-growth warning (a literal in the code)
RapidGrowthThreshold == 50

\* the range of the factor of the previous period, random.uniform(0.6, 1.2),
\* in whole percents
PreviousFactorMin == 60
PreviousFactorMax == 120

\* the weighted total in tenths of a link
WeightedTotal(high_auth_count, medium_auth_count, low_auth_count) ==
    high_auth_count * AUTHORITY_WEIGHTS.high
    + medium_auth_count * AUTHORITY_WEIGHTS.medium
    + low_auth_count * AUTHORITY_WEIGHTS.low

\* int(weighted_total * rate): tenths times percents, truncated
MonthlyEstimate(weighted_tenths, rate_pct) == (weighted_tenths * rate_pct) \div 1000

\* int(weighted_total * (rate * 2.5))
QuarterlyEstimate(weighted_tenths, rate_pct) ==
    (weighted_tenths * rate_pct * 25) \div 10000

\* variant: the estimate is capped by the share of the total and not floored
ClampEstimate_noFloor(estimate, floor, share) == Min(estimate, share)

\* max(floor, min(estimate, share))
ClampEstimate(estimate, floor, share) == Max(floor, Min(estimate, share))

\* variant: the product is rounded up rather than truncated
PreviousPeriod_roundedUp(new_links_30_days, factor_pct) ==
    Max(1, (new_links_30_days * factor_pct + 99) \div 100)

\* max(1, int(new_links_30_days * u))
PreviousPeriod(new_links_30_days, factor_pct) ==
    Max(1, (new_links_30_days * factor_pct) \div 100)

\* the acceleration in percent as an exact fraction num / den, den > 0
Acceleration(new_links_30_days, previous_30_days) ==
    IF previous_30_days > 0
    THEN [num |-> (new_links_30_days - previous_30_days) * 100, den |-> previous_30_days]
    ELSE [num |-> 0, den |-> 1]

AccelerationAbove(acceleration, threshold) ==
    acceleration.num > threshold * acceleration.den

AccelerationBelow(acceleration, threshold) ==
    acceleration.num < threshold * acceleration.den

\* variant: an acceleration of exactly the accelerating threshold is already
\* labelled accelerating
TrendOf_inclusive(acceleration) ==
    IF ~AccelerationBelow(acceleration, ACCELERATION_ACCELERATING) THEN "accelerating"
    ELSE IF AccelerationAbove(acceleration, ACCELERATION_GROWING) THEN "growing"
    ELSE IF AccelerationBelow(acceleration, ACCELERATION_DECLINING) THEN "declining"
    ELSE IF AccelerationBelow(acceleration, ACCELERATION_SLOWING) THEN "slowing"
    ELSE "stable"

\* the if/elif chain on the acceleration
TrendOf(acceleration) ==
    IF AccelerationAbove(acceleration, ACCELERATION_ACCELERATING) THEN "accelerating"
    ELSE IF AccelerationAbove(acceleration, ACCELERATION_GROWING) THEN "growing"
    ELSE IF AccelerationBelow(acceleration, ACCELERATION_DECLINING) THEN "declining"
    ELSE IF AccelerationBelow(acceleration, ACCELERATION_SLOWING) THEN "slowing"
    ELSE "stable"

TrendAssessment(trend) ==
    CASE trend = "accelerating" -> "Strong growth momentum detected"
      [] trend = "growing" -> "Steady link acquisition underway"
      [] trend = "declining" -> "Significant drop in link acquisition"
      [] trend = "slowing" -> "Link growth rate declining"
      [] OTHER -> "Consistent link acquisition pattern"

\* round(acceleration, 2), in hundredths of a percent
AccelerationRate(acceleration) ==
    (2 * 100 * acceleration.num + acceleration.den) \div (2 * acceleration.den)

\* int(high_auth_count * rate) and int(high_auth_count * (rate * 2.5))
HighAuthMonthly(high_auth_count, rate_pct) ==
    Max(0, (high_auth_count * rate_pct) \div 100)

HighAuthQuarterly(high_auth_count, rate_pct) ==
    Max(0, (high_auth_count * rate_pct * 25) \div 1000)

Stalled(new_links_30_days, total_backlinks) ==
    new_links_30_days < VELOCITY_STALLED_THRESHOLD /\ total_backlinks > 20

\* variant: the excellent tier needs strictly more than a fifth of the total
VelocityScore_strictExcellent(new_links_30_days, total_backlinks) ==
    IF Stalled(new_links_30_days, total_backlinks) THEN 20
    ELSE IF new_links_30_days > total_backlinks \div VELOCITY_EXCELLENT_RATIO THEN 90
    ELSE IF new_links_30_days >= total_backlinks \div VELOCITY_GOOD_RATIO THEN 75
    ELSE 50

VelocityScore(new_links_30_days, total_backlinks) ==
    IF Stalled(new_links_30_days, total_backlinks) THEN 20
    ELSE IF new_links_30_days >= total_backlinks \div VELOCITY_EXCELLENT_RATIO THEN 90
    ELSE IF new_links_30_days >= total_backlinks \div VELOCITY_GOOD_RATIO THEN 75
    ELSE 50

VelocityWarnings(acceleration, new_links_30_days, total_backlinks) ==
    (IF AccelerationAbove(acceleration, RapidGrowthThreshold)
     THEN <<"Unusually rapid growth detected - monitor for quality degradation">>
     ELSE <<>>)
    \o (IF Stalled(new_links_30_days, total_backlinks)
        THEN <<"No new links in last 30 days - acquisition has stalled">>
        ELSE <<>>)

CalculationBasis(high_auth_count, medium_auth_count, low_auth_count) ==
    "Based on " \o ToString(high_auth_count) \o " high-authority + "
    \o ToString(medium_auth_count) \o " medium + "
    \o ToString(low_auth_count) \o " low-authority links"

\* the returned dict, from the clamped estimates and the previous period
VelocityReport(a, new_links_30_days, new_links_90_days, previous_30_days, acceleration) ==
    [ new_links_30_days |-> new_links_30_days,
      new_links_90_days |-> new_links_90_days,
      previous_30_days |-> previous_30_days,
      high_authority_links_30d |-> HighAuthMonthly(a.high_auth_count, a.rate_pct),
      high_authority_links_90d |-> HighAuthQuarterly(a.high_auth_count, a.rate_pct),
      trend |-> TrendOf(acceleration),
      trend_assessment |-> TrendAssessment(TrendOf(acceleration)),
      acceleration_rate |-> AccelerationRate(acceleration),
      monthly_growth_rate |-> a.rate_pct * 100,
      velocity_health_score |-> VelocityScore(new_links_30_days, a.total_backlinks),
      velocity_warnings |->
          VelocityWarnings(acceleration, new_links_30_days, a.total_backlinks),
      analysis_type |-> "Real-time Authority-Weighted Analysis",
      calculation_basis |->
          CalculationBasis(a.high_auth_count, a.medium_auth_count, a.low_auth_count) ]

VelocityFromPrevious(a, new_links_30_days, new_links_90_days, previous_30_days) ==
    VelocityReport(a, new_links_30_days, new_links_90_days, previous_30_days,
                   Acceleration(new_links_30_days, previous_30_days))

VelocityFromEstimates(a, new_links_30_days, new_links_90_days) ==
    VelocityFromPrevious(a, new_links_30_days, new_links_90_days,
                         PreviousPeriod(new_links_30_days, a.factor_pct))

VelocityFromWeighted(a, weighted_tenths) ==
    VelocityFromEstimates(a,
        ClampEstimate(MonthlyEstimate(weighted_tenths, a.rate_pct), 1,
                      a.total_backlinks \div 3),
        ClampEstimate(QuarterlyEstimate(weighted_tenths, a.rate_pct), 2,
                      a.total_backlinks \div 2))

\* a holds the four arguments and the two values drawn from random.uniform:
\* rate_pct for the monthly growth rate, factor_pct for the previous period
calculate_intelligent_link_velocity(a) ==
    VelocityFromWeighted(a,
        WeightedTotal(a.high_auth_count, a.medium_auth_count, a.low_auth_count))

\* Arguments of the call.  analyze_backlinks passes a total of 50 to 500 and
\* the sizes of its three link lists; the function itself takes any integers.
MaxTotalBacklinks == 66
TotalBacklinksInputs == 0..MaxTotalBacklinks
HighAuthInputs == {0, 3, 22}
MediumAuthInputs == {0, 7}
LowAuthInputs == {0, 10, 76}

\* the values random.uniform can return, on a grid of whole percents
GrowthRates == LINK_VELOCITY_MIN_GROWTH..LINK_VELOCITY_MAX_GROWTH
PreviousFactors == {p \in PreviousFactorMin..PreviousFactorMax : p % 3 = 0}

InitVelocity ==
    /\ pc = "velocity_call"
    /\ args \in [ total_backlinks : TotalBacklinksInputs,
                  high_auth_count : HighAuthInputs,
                  medium_auth_count : MediumAuthInputs,
                  low_auth_count : LowAuthInputs ]
    /\ ret = Unbound
    /\ NoWeb /\ NoAgent /\ NoCrawl

CallVelocity ==
    /\ pc = "velocity_call"
    /\ \E rate_pct \in GrowthRates, factor_pct \in PreviousFactors :
          ret' = calculate_intelligent_link_velocity(
                     [ total_backlinks |-> args.total_backlinks,
                       high_auth_count |-> args.high_auth_count,
                       medium_auth_count |-> args.medium_auth_count,
                       low_auth_count |-> args.low_auth_count,
                       rate_pct |-> rate_pct,
                       factor_pct |-> factor_pct ])
    /\ pc' = "velocity_return"
    /\ UNCHANGED <<args, web, served, agentVars, crawlVars>>

NextVelocity == CallVelocity

SpecVelocity == InitVelocity /\ [][NextVelocity]_vars

(***************************************************************************)
(* tools.py: extract_page_backlinks                                        *)
(*                                                                         *)
(* The page response has the shape get_page_links_by_category reads.       *)
(***************************************************************************)
MAX_EXTERNAL_DOMAINS == 10

EmptyLinkStats ==
    [total_links |-> 0, internal_links |-> 0, external_links |-> 0,
     nofollow_links |-> 0, dofollow_links |-> 0,
     links_with_anchor |-> 0, links_without_anchor |-> 0]

\* internal or external, from the first characters of the href
BacklinkType(href, page_domain) ==
    IF StartsWith(href, "/") THEN "internal"
    ELSE IF StartsWith(href, "http") THEN "external"
    ELSE "internal"

FollowStatus(rel) ==
    IF "nofollow" \in Range(rel) THEN "nofollow"
    ELSE IF "sponsored" \in Range(rel) THEN "sponsored"
    ELSE IF "ugc" \in Range(rel) THEN "ugc"
    ELSE "dofollow"

\* the dict appended to backlinks
BacklinkOf(link, href, anchor_text, page_domain) ==
    [href |-> href,
     anchor_text |-> IF anchor_text # "" THEN anchor_text ELSE "[No anchor text]",
     link_type |-> BacklinkType(href, page_domain),
     target_domain |-> IF BacklinkType(href, page_domain) = "external"
                       THEN Replace(Netloc(href), "www.", "") ELSE page_domain,
     is_nofollow |-> "nofollow" \in Range(link.rel),
     is_sponsored |-> "sponsored" \in Range(link.rel),
     is_ugc |-> "ugc" \in Range(link.rel),
     follow_status |-> FollowStatus(link.rel),
     has_anchor_text |-> anchor_text # ""]

\* the counters one link increments
CountBacklink(link_stats, backlink) ==
    [link_stats EXCEPT
        !.internal_links = @ + (IF backlink.link_type = "internal" THEN 1 ELSE 0),
        !.external_links = @ + (IF backlink.link_type = "external" THEN 1 ELSE 0),
        !.nofollow_links = @ + (IF backlink.is_nofollow THEN 1 ELSE 0),
        !.dofollow_links = @ + (IF backlink.is_nofollow THEN 0 ELSE 1),
        !.links_with_anchor = @ + (IF backlink.has_anchor_text THEN 1 ELSE 0),
        !.links_without_anchor = @ + (IF backlink.has_anchor_text THEN 0 ELSE 1),
        !.total_links = @ + 1]

AddBacklink(acc, backlink) ==
    [link_stats |-> CountBacklink(acc.link_stats, backlink),
     backlinks |-> Append(acc.backlinks, backlink)]

\* one iteration of the loop over the anchors
ProcessBacklink(acc, link, page_domain) ==
    IF SkippedHref(Strip(link.href)) THEN acc
    ELSE AddBacklink(acc, BacklinkOf(link, Strip(link.href), Strip(link.text),
                                     page_domain))

RECURSIVE ExtractBacklinks(_, _, _)
ExtractBacklinks(anchors, acc, page_domain) ==
    IF anchors = <<>> THEN acc
    ELSE ExtractBacklinks(Tail(anchors), ProcessBacklink(acc, Head(anchors), page_domain),
                          page_domain)

\* round((count / total) * 100, 1), in tenths of a percent
Percent1(count, total) == (2000 * count + total) \div (2 * total)

\* a float with one decimal as an f-string prints it
Tenths(t) == ToString(t \div 10) \o "." \o ToString(t % 10)

WithPercents(link_stats) ==
    [k \in DOMAIN link_stats \cup {"internal_percent", "external_percent",
                                   "dofollow_percent", "nofollow_percent"} |->
        CASE k = "internal_percent" ->
                 Percent1(link_stats.internal_links, link_stats.total_links)
          [] k = "external_percent" ->
                 Percent1(link_stats.external_links, link_stats.total_links)
          [] k = "dofollow_percent" ->
                 Percent1(link_stats.dofollow_links, link_stats.total_links)
          [] k = "nofollow_percent" ->
                 Percent1(link_stats.nofollow_links, link_stats.total_links)
          [] OTHER -> link_stats[k]]

ExternalOf(backlinks) == SelectSeq(backlinks, LAMBDA l : l.link_type = "external")

RECURSIVE FirstSeen(_, _)
\* the keys of external_domains in insertion order
FirstSeen(external, seen) ==
    IF external = <<>> THEN seen
    ELSE FirstSeen(Tail(external),
                   IF Head(external).target_domain \in Range(seen) THEN seen
                   ELSE Append(seen, Head(external).target_domain))

DomainEntry(domain, external) ==
    [domain |-> domain,
     link_count |-> Len(SelectSeq(external, LAMBDA l : l.target_domain = domain)),
     links |-> [i \in 1..Len(SelectSeq(external, LAMBDA l : l.target_domain = domain)) |->
                  [href |-> SelectSeq(external, LAMBDA l : l.target_domain = domain)[i].href,
                   anchor_text |->
                       SelectSeq(external, LAMBDA l : l.target_domain = domain)[i].anchor_text,
                   follow_status |->
                       SelectSeq(external, LAMBDA l : l.target_domain = domain)[i].follow_status]]]

RECURSIVE InsertByCount(_, _)
\* entry goes behind every entry whose count is not smaller (sorted is stable)
InsertByCount(sorted, entry) ==
    IF sorted = <<>> THEN <<entry>>
    ELSE IF Head(sorted).link_count >= entry.link_count
    THEN <<Head(sorted)>> \o InsertByCount(Tail(sorted), entry)
    ELSE <<entry>> \o sorted

RECURSIVE SortByCount(_, _)
SortByCount(entries, sorted) ==
    IF entries = <<>> THEN sorted
    ELSE SortByCount(Tail(entries), InsertByCount(sorted, Head(entries)))

TopExternalDomains(external) ==
    SliceTo(SortByCount([i \in 1..Len(FirstSeen(external, <<>>)) |->
                            DomainEntry(FirstSeen(external, <<>>)[i], external)], <<>>),
            MAX_EXTERNAL_DOMAINS)

BacklinkError(url, error_str) ==
    [error |-> error_str, page_url |-> url,
     message |-> "Failed to extract backlinks: " \o error_str]

\* the returned dict; reading dofollow_percent raises KeyError when the page
\* has no link, because the percentages are only stored for total > 0
BacklinkReport(url, page_domain, acc) ==
    IF acc.link_stats.total_links = 0
    THEN BacklinkError(url, "'dofollow_percent'")
    ELSE [page_url |-> url,
          page_domain |-> page_domain,
          link_statistics |-> WithPercents(acc.link_stats),
          total_backlinks_found |-> Len(acc.backlinks),
          all_links |-> acc.backlinks,
          top_external_domains |-> TopExternalDomains(ExternalOf(acc.backlinks)),
          link_analysis |->
             [internal_to_external_ratio |->
                  ToString(acc.link_stats.internal_links) \o ":" \o
                  ToString(acc.link_stats.external_links),
              dofollow_quality |->
                  Tenths(Percent1(acc.link_stats.dofollow_links,
                                  acc.link_stats.total_links))
                  \o "% of links pass link equity",
              anchor_text_coverage |->
                  ToString(acc.link_stats.links_with_anchor) \o "/" \o
                  ToString(acc.link_stats.total_links) \o " links have anchor text",
              has_nofollow_links |-> acc.link_stats.nofollow_links > 0,
              has_sponsored_links |->
                  \E i \in 1..Len(acc.backlinks) : acc.backlinks[i].is_sponsored,
              has_ugc_links |->
                  \E i \in 1..Len(acc.backlinks) : acc.backlinks[i].is_ugc]]

BacklinksOfPage(url, page, page_domain) ==
    BacklinkReport(url, page_domain,
        ExtractBacklinks(page.anchors,
                         [link_stats |-> EmptyLinkStats, backlinks |-> <<>>],
                         page_domain))

extract_page_backlinks(url, page) ==
    IF page.outcome # "response"
    THEN BacklinkError(url, "request failed")
    ELSE IF page.status_code >= 400
    THEN BacklinkError(url, HttpErrorText(page.status_code, url))
    ELSE BacklinksOfPage(url, page, Replace(Netloc(url), "www.", ""))

(***************************************************************************)
(* Specification of one call of extract_page_backlinks                     *)
(***************************************************************************)
BacklinkAnchorPool ==
    { [href |-> "/about", text |-> "About us", rel |-> <<>>],
      [href |-> "https://www.example.com/pricing", text |-> "Pricing", rel |-> <<"ugc">>],
      [href |-> " https://other.com/shop ", text |-> "Shop", rel |-> <<"nofollow">>],
      [href |-> "https://www.other.com/", text |-> "", rel |-> <<"sponsored">>],
      [href |-> "//cdn.partner.org/kit", text |-> "Kit", rel |-> <<>>],
      [href |-> "pricing.html", text |-> "  ", rel |-> <<"sponsored", "nofollow">>],
      [href |-> "mailto:team@example.com", text |-> "Mail", rel |-> <<>>] }

BacklinkAnchorLists == UNION {[1..n -> BacklinkAnchorPool] : n \in 0..MaxAnchors}

InitBacklinks ==
    /\ pc = "backlinks_call"
    /\ args \in [url : PageUrls]
    /\ web \in FailedResponses \cup
               {[outcome |-> "response", status_code |-> 200, anchors |-> a] :
                    a \in BacklinkAnchorLists}
    /\ ret = Unbound
    /\ served = <<>>
    /\ NoAgent /\ NoCrawl

CallExtractBacklinks ==
    /\ pc = "backlinks_call"
    /\ ret' = extract_page_backlinks(args.url, web)
    /\ pc' = "backlinks_return"
    /\ UNCHANGED <<args, web, served, agentVars, crawlVars>>

NextBacklinks == CallExtractBacklinks

SpecBacklinks == InitBacklinks /\ [][NextBacklinks]_vars

(***************************************************************************)
(* Claims on the page report                                               *)
(***************************************************************************)
\* the workflow has analysed a page that was fetched without error
Analysed ==
    /\ pc = "reporter"
    /\ "error" \notin DOMAIN state.links_data

\* the response to a page that was fetched without error
AnsweredPage ==
    /\ pc = "responded"
    /\ "error" \notin DOMAIN state.links_data

\* C9 as claimed: for every page input, 0 links included, the report carries
\* a link quality score that is an integer in [0, 100], and so does the
\* response of the single-page API.
C9_ScoreAlwaysInRange ==
    /\ Analysed =>
          /\ "link_quality_score" \in DOMAIN state.categorized_report
          /\ state.categorized_report.link_quality_score \in 0..100
    /\ AnsweredPage => response.quality_score \in 0..100

\* C9 as amended: for every page with at least one link the report's link
\* quality score is an integer in [0, 100] and the API returns that score; for
\* a page with 0 links the report carries no link quality score and the API
\* returns quality_score 0.
C9_ScoreInRangeWhenLinks ==
    /\ Analysed =>
          IF state.links_data.total_links > 0
          THEN /\ "link_quality_score" \in DOMAIN state.categorized_report
               /\ state.categorized_report.link_quality_score \in 0..100
          ELSE "link_quality_score" \notin DOMAIN state.categorized_report
    /\ AnsweredPage =>
          /\ response.quality_score \in 0..100
          /\ response.quality_score =
                (IF state.links_data.total_links > 0
                 THEN state.categorized_report.report.link_quality_score
                 ELSE 0)

\* C9 witness: a page whose only link is external (100% external links) and
\* lacks anchor text, answered with the lowest score
C9_Witness ==
    /\ AnsweredPage
    /\ response.total_links = 1
    /\ response.external_links = 1
    /\ response.quality_score = 35

\* the links of the analysed page that lack anchor text
LinksWithoutAnchor(data) ==
    {<<c, i>> \in Taxonomy \X (1..data.total_links) :
        /\ i <= Len(data.categories[c].links)
        /\ data.categories[c].links[i].anchor_text = "[No text]"}

\* the deltas of the score, as (condition, points) rows
ScoreDeltas(data) ==
    LET n(c)   == data.categories[c].count
        total  == data.total_links
        ext    == n("external")
        blank  == Cardinality(LinksWithoutAnchor(data))
    IN  << <<n("navigation") >= 5, 5>>,
           <<n("navigation") = 0, -10>>,
           <<n("social") > 0, 3>>,
           <<n("legal") > 0, 5>>,
           <<n("legal") = 0, -5>>,
           <<n("business") >= 10, 5>>,
           <<10 * 100 * ext >= 2 * total /\ 100 * ext <= 30 * total, 7>>,
           <<100 * ext > 70 * total, -10>>,
           <<blank = 0, 5>>,
           <<100 * blank > 20 * total, -10>> >>

RECURSIVE SumDeltas(_)
SumDeltas(rows) ==
    IF rows = <<>> THEN 0
    ELSE (IF rows[1][1] THEN rows[1][2] ELSE 0) + SumDeltas(Tail(rows))

\* C10: for a page with at least one link the score before clamping is the
\* base 70 plus exactly the claim's deltas, and the reported score is that sum
\* clamped to [0, 100].
C10_ScoreIsBasePlusDeltas ==
    (Analysed /\ state.links_data.total_links > 0) =>
        LET expected == 70 + SumDeltas(ScoreDeltas(state.links_data))
        IN  /\ RawScoreOf(state.links_data) = expected
            /\ state.categorized_report.link_quality_score =
                  (IF expected > 100 THEN 100 ELSE IF expected < 0 THEN 0 ELSE expected)

\* C10 witness: every bonus applies and no penalty does
C10_Witness ==
    /\ Analysed
    /\ state.links_data.categories["navigation"].count = 5
    /\ state.links_data.categories["business"].count = 10
    /\ state.links_data.categories["external"].count = 3
    /\ state.categorized_report.link_quality_score = 100

(***************************************************************************)
(* Claims on the sitemap parser and the sitemap walk                       *)
(***************************************************************************)
\* the sitemap is a URL set: it parses and has no <sitemap> entry
IsLeaf(docs, loc) ==
    loc \in DOMAIN docs /\ docs[loc].outcome = "ok" /\ docs[loc].sitemaps = <<>>

\* the root is a sitemap index whose nested sitemaps each parse as a URL set
\* or fail to fetch or parse
IndexOfLeaves(docs, root) ==
    /\ root \in DOMAIN docs
    /\ docs[root].outcome = "ok"
    /\ docs[root].sitemaps # <<>>
    /\ \A loc \in Range(docs[root].sitemaps) :
          loc # "" => (IsLeaf(docs, loc) \/ SitemapFails(docs, loc, 1))

RECURSIVE LeafUrls(_, _)
\* the <loc> URLs of the successfully parsed leaf sitemaps, in document order
LeafUrls(docs, locs) ==
    IF locs = <<>> THEN <<>>
    ELSE (IF Head(locs) # "" /\ IsLeaf(docs, Head(locs))
          THEN SelectSeq(docs[Head(locs)].urls, LAMBDA u : u # "")
          ELSE <<>>)
         \o LeafUrls(docs, Tail(locs))

\* C2 as claimed: for a sitemap index of leaf sitemaps the result is exactly
\* the leaf URLs of the successfully parsed nested sitemaps, in document
\* order, cut to 1000; it never holds an element that is not a leaf URL.
C2_IndexFlattensToLeafUrls ==
    (pc = "sitemap_return" /\ IndexOfLeaves(web.docs, args.sitemap_url)) =>
        LET leaves == LeafUrls(web.docs, web.docs[args.sitemap_url].sitemaps)
        IN  ret = SubSeq(leaves, 1, IF Len(leaves) > 1000 THEN 1000 ELSE Len(leaves))

\* C1 as claimed: every selected page whose single-page pipeline failed has an
\* error entry (page_url plus error) in the pages list of the returned report.
C1_FailedPagesAreRecorded ==
    (pc = "crawl_done" /\ ~SitemapFails(web.docs, args.sitemap_url, 0)) =>
        \A i \in 1..Len(served) :
            "error" \in DOMAIN served[i].page_data =>
                \E j \in 1..Len(ret.pages) :
                    /\ ret.pages[j].page_url = served[i].url
                    /\ ret.pages[j].page_number = i
                    /\ "error" \in DOMAIN ret.pages[j]

(***************************************************************************)
(* Claims on the support adjustment and on the error reports               *)
(***************************************************************************)
\* the link data of a page with one more support link, which has anchor text
WithSupportLink(data) ==
    [data EXCEPT !.total_links = @ + 1,
                 !.categories["support"].count = @ + 1,
                 !.categories["support"].links =
                     Append(@, [url |-> "https://www.example.com/help",
                                anchor_text |-> "Help", is_nofollow |-> FALSE,
                                is_sponsored |-> FALSE, confidence |-> 9])]

\* C11 as claimed: of two pages that differ only in having a support link
\* (every other delta of the score applies to both or to neither), the one
\* with the support link scores +3, the one without -3: their scores before
\* clamping differ by 6.
C11_SupportLinksAdjustScore ==
    (/\ Analysed
     /\ state.links_data.total_links > 0
     /\ state.links_data.categories["support"].count = 0
     /\ ScoreDeltas(WithSupportLink(state.links_data)) = ScoreDeltas(state.links_data))
    => RawScoreOf(WithSupportLink(state.links_data)) = RawScoreOf(state.links_data) + 6

\* the page fetch of the request was answered with HTTP 403
Blocked ==
    /\ web.outcome = "response"
    /\ web.status_code = 403

\* C12 as claimed: for a page answered with HTTP 403 the pipeline's report has
\* success == false and access_blocked == true and carries the error kind, and
\* the API response carries access_blocked == true, the error kind and the
\* message, with no categories and no links.
C12_BlockedPageReport ==
    (pc = "responded" /\ Blocked) =>
        LET report == state.categorized_report.report
        IN  /\ "success" \in DOMAIN report /\ report.success = FALSE
            /\ "access_blocked" \in DOMAIN report /\ report.access_blocked = TRUE
            /\ "error" \in DOMAIN report /\ report.error = "403 Forbidden"
            /\ "access_blocked" \in DOMAIN response /\ response.access_blocked = TRUE
            /\ "error" \in DOMAIN response /\ response.error = "403 Forbidden"
            /\ response.warnings = <<state.links_data.message>>
            /\ response.categories = EmptyDict
            /\ response.all_links = <<>>

\* C13 as claimed: for a page fetched without error that has no link, the
\* report of node_analyze_link_categories has success == false, the fixed
\* no-links insight and the warning.
C13_NoLinksReportFlagsFailure ==
    (Analysed /\ state.links_data.total_links = 0) =>
        LET report == state.categorized_report
        IN  /\ "success" \in DOMAIN report /\ report.success = FALSE
            /\ report.insights = <<"No links found on this page.">>
            /\ report.warnings =
                  <<"Pages with no links may have poor user experience and limited SEO value.">>

(***************************************************************************)
(* Claims on the outcomes of a page fetch                                  *)
(***************************************************************************)
\* the three flags of a failure result
FailureFlags == {"access_blocked", "timeout", "connection_error"}

\* the outcome shape the claim gives to what the fetch was served
ShapeOf(page) ==
    IF page.outcome = "timeout" THEN "timeout"
    ELSE IF page.outcome = "connection_error" THEN "connection"
    ELSE IF page.outcome # "response" THEN "generic"
    ELSE IF page.status_code = 403 THEN "blocked"
    ELSE IF page.status_code >= 400 THEN "generic"
    ELSE "success"

\* the result r has the given outcome shape
HasShape(r, shape) ==
    CASE shape = "success" ->
            DOMAIN r = {"page_url", "page_domain", "total_links", "categories"}
      [] shape = "blocked" ->
            /\ DOMAIN r = {"error", "page_url", "message", "status_code", "access_blocked"}
            /\ r.access_blocked = TRUE
            /\ r.status_code = 403
      [] shape = "timeout" ->
            /\ DOMAIN r = {"error", "page_url", "message", "timeout"}
            /\ r.timeout = TRUE
      [] shape = "connection" ->
            /\ DOMAIN r = {"error", "page_url", "message", "connection_error"}
            /\ r.connection_error = TRUE
      [] shape = "generic" ->
            DOMAIN r = {"error", "page_url", "message"}

\* C14: every call of get_page_links_by_category returns a result of exactly
\* one of the five shapes, the one of what the fetch was served: success, or
\* blocked (403), timeout, connection failure, generic failure; a failure
\* carries 'error' and a non-empty 'message', at most one of the three flags
\* and no categories.
C14_FiveOutcomeShapes ==
    pc = "page_return" =>
        /\ HasShape(ret, ShapeOf(web))
        /\ \A shape \in {"success", "blocked", "timeout", "connection", "generic"} :
              HasShape(ret, shape) => shape = ShapeOf(web)
        /\ ("error" \in DOMAIN ret) <=> (ShapeOf(web) # "success")
        /\ "error" \in DOMAIN ret =>
              /\ "message" \in DOMAIN ret /\ ret.message # "" /\ ret.error # ""
              /\ Cardinality(FailureFlags \cap DOMAIN ret) <= 1
              /\ "categories" \notin DOMAIN ret

\* C14 witness: a fetch answered with HTTP 403 returned the blocked result
C14_Witness ==
    /\ pc = "page_return"
    /\ Blocked
    /\ "access_blocked" \in DOMAIN ret
    /\ ret.access_blocked = TRUE
    /\ ret.error = "403 Forbidden"

(***************************************************************************)
(* Claims on the sitemap walk                                              *)
(***************************************************************************)
\* the top-level sitemap was fetched and parsed
SitemapParsed == ~SitemapFails(web.docs, args.sitemap_url, 0)

\* the walk has returned
CrawlReturned == pc = "crawl_done"

\* the URLs of the page fetches made so far, in the order they were made
FetchedUrls == [i \in 1..Len(served) |-> served[i].url]

\* the keys of a sitemap report
ReportKeys ==
    {"sitemap_url", "total_pages_crawled", "total_pages_in_sitemap", "category_summary",
     "pages"}

\* the fetches made so far are the first selected URLs, one fetch each, in
\* sitemap order; when the walk of a parsed sitemap has returned, every
\* selected URL was fetched and the result is a sitemap report
WalkInOrder ==
    /\ pc = "crawl_loop" =>
          /\ Len(served) = idx
          /\ idx <= Len(UrlsToCrawl(urls, args))
          /\ FetchedUrls = SubSeq(UrlsToCrawl(urls, args), 1, idx)
    /\ (CrawlReturned /\ SitemapParsed) =>
          /\ FetchedUrls = UrlsToCrawl(urls, args)
          /\ DOMAIN ret = ReportKeys
          /\ ret.total_pages_in_sitemap = Len(urls)

\* C15: once the sitemap is parsed, every selected URL is fetched exactly
\* once, in sitemap order, whatever the outcome of the earlier pages, and the
\* walk always ends by returning a sitemap report.
C15_EveryPageOnceInOrder ==
    /\ []WalkInOrder
    /\ <>CrawlReturned

\* C15 witness: a walk of three pages returned after the fetch of page 1 timed
\* out, page 2 was blocked and page 3 succeeded
C15_Witness ==
    /\ CrawlReturned
    /\ SitemapParsed
    /\ Len(served) = 3
    /\ served[1].page.outcome = "timeout"
    /\ "access_blocked" \in DOMAIN served[2].page_data
    /\ "error" \notin DOMAIN served[3].page_data
    /\ DOMAIN ret = ReportKeys

\* C16 as claimed: the number of pages fetched never exceeds max_pages (no
\* page at all when max_pages <= 0), and never exceeds MAX_PAGES_TO_CRAWL when
\* max_pages is omitted.
C16_FetchesAtMostMaxPages ==
    Len(served) <= (IF "max_pages" \in DOMAIN args
                    THEN (IF args.max_pages <= 0 THEN 0 ELSE args.max_pages)
                    ELSE MAX_PAGES_TO_CRAWL)

\* the successful page entries of a pages list: those without 'error'
SuccessfulEntries(pages) == SelectSeq(pages, LAMBDA e : "error" \notin DOMAIN e)

\* the page results of the fetches that succeeded, in the order of the walk
SuccessfulFetches ==
    LET ok == SelectSeq(served, LAMBDA f : "error" \notin DOMAIN f.page_data)
    IN  [i \in 1..Len(ok) |-> ok[i].page_data]

RECURSIVE SumSeq(_)
SumSeq(numbers) ==
    IF numbers = <<>> THEN 0 ELSE Head(numbers) + SumSeq(Tail(numbers))

\* the counts of category c over the page entries
CountsOf(entries, c) == [i \in 1..Len(entries) |-> entries[i].categories[c].count]

\* C17: in every returned report, for each category, total_count is the sum
\* of the category's count over the successful page entries and
\* pages_with_this_category the number of those entries with a count above 0;
\* the total_counts add up to the total_links of the successful entries; the
\* successful entries are the results of the fetches that succeeded, so a
\* failed page contributes nothing.
C17_SummaryMatchesPages ==
    (CrawlReturned /\ SitemapParsed) =>
        LET entries == SuccessfulEntries(ret.pages)
        IN  /\ \A c \in Taxonomy :
                  /\ ret.category_summary[c].total_count = SumSeq(CountsOf(entries, c))
                  /\ ret.category_summary[c].pages_with_this_category =
                        Len(SelectSeq(CountsOf(entries, c), LAMBDA n : n > 0))
            /\ SumOver([c \in Taxonomy |-> ret.category_summary[c].total_count], Taxonomy)
                  = SumSeq([i \in 1..Len(entries) |-> entries[i].total_links])
            /\ Len(entries) = Len(SuccessfulFetches)
            /\ \A i \in 1..Len(entries) :
                  /\ entries[i].categories = SuccessfulFetches[i].categories
                  /\ entries[i].total_links = SuccessfulFetches[i].total_links

\* C17 witness: a walk of a page with links, a failed page and a page without
\* links returned; one page contributes two navigation links and one external
C17_Witness ==
    /\ CrawlReturned
    /\ SitemapParsed
    /\ Len(served) = 3
    /\ Len(ret.pages) = 2
    /\ ret.category_summary["navigation"].total_count = 2
    /\ ret.category_summary["navigation"].pages_with_this_category = 1
    /\ ret.category_summary["external"].total_count = 1
    /\ ret.category_summary["legal"].pages_with_this_category = 0

\* C18: when the top-level sitemap cannot be fetched or parsed, the walk
\* never starts: no page is fetched, and what is returned is the error
\* result of the parse, without pages list and without category summary.
C18_SitemapFailureIsFatal ==
    ~SitemapParsed =>
        /\ pc \in {"crawl_call", "crawl_done"}
        /\ served = <<>>
        /\ CrawlReturned =>
              /\ "error" \in DOMAIN ret
              /\ ret.error # ""
              /\ "pages" \notin DOMAIN ret
              /\ "category_summary" \notin DOMAIN ret

\* C18 witness: the walk returned the error of a sitemap that failed
C18_Witness ==
    /\ CrawlReturned
    /\ ~SitemapParsed
    /\ DOMAIN ret = {"error"}
    /\ served = <<>>

(***************************************************************************)
(* Claims on the link velocity estimate                                    *)
(***************************************************************************)
VelocityReturned == pc = "velocity_return"

\* a returned report whose acceleration, taken from its two 30-day figures,
\* is above the threshold, and one whose acceleration is below it
ReportedAbove(threshold) ==
    (ret.new_links_30_days - ret.previous_30_days) * 100
        > threshold * ret.previous_30_days

ReportedBelow(threshold) ==
    (ret.new_links_30_days - ret.previous_30_days) * 100
        < threshold * ret.previous_30_days

\* C19: the trend label of a returned velocity report is a function of the
\* acceleration a = (new_links_30_days - previous_30_days) / previous_30_days
\* * 100: accelerating exactly when a > 20, growing exactly when 5 < a <= 20,
\* declining exactly when a < -20, slowing exactly when -20 <= a < -5, and
\* stable exactly when -5 <= a <= 5.
C19_TrendFollowsAcceleration ==
    VelocityReturned =>
        /\ ret.previous_30_days > 0
        /\ ret.trend = "accelerating" <=> ReportedAbove(20)
        /\ ret.trend = "growing" <=> (ReportedAbove(5) /\ ~ReportedAbove(20))
        /\ ret.trend = "declining" <=> ReportedBelow(-20)
        /\ ret.trend = "slowing" <=> (~ReportedBelow(-20) /\ ReportedBelow(-5))
        /\ ret.trend = "stable" <=> (~ReportedBelow(-5) /\ ~ReportedAbove(5))

\* a report whose acceleration is exactly 20 percent, labelled growing
C19_Witness ==
    /\ VelocityReturned
    /\ ret.previous_30_days > 1
    /\ (ret.new_links_30_days - ret.previous_30_days) * 100
          = 20 * ret.previous_30_days
    /\ ret.trend = "growing"

\* C20: the two estimates of a returned velocity report are clamped to a
\* fraction of the total: new_links_30_days is at most total_backlinks // 3
\* and new_links_90_days is at most total_backlinks // 2, for every total of
\* 0 or more, all authority counts and every growth rate from 5% to 15%.
C20_EstimatesClampedToFraction ==
    VelocityReturned =>
        /\ ret.new_links_30_days <= args.total_backlinks \div 3
        /\ ret.new_links_90_days <= args.total_backlinks \div 2

\* C21: the velocity health score of a returned report is 20 when
\* new_links_30_days < 1 and total_backlinks > 20; otherwise 90 when
\* new_links_30_days >= total_backlinks // 5, otherwise 75 when
\* new_links_30_days >= total_backlinks // 10, otherwise 50; it is always one
\* of 20, 50, 75 and 90.
C21_HealthScoreTiers ==
    VelocityReturned =>
        /\ ret.velocity_health_score \in {20, 50, 75, 90}
        /\ ret.velocity_health_score =
              IF ret.new_links_30_days < 1 /\ args.total_backlinks > 20 THEN 20
              ELSE IF ret.new_links_30_days >= args.total_backlinks \div 5 THEN 90
              ELSE IF ret.new_links_30_days >= args.total_backlinks \div 10 THEN 75
              ELSE 50

\* a report on the edge of the excellent tier: the 30-day figure is exactly a
\* fifth of an established total, and the score is 90
C21_Witness ==
    /\ VelocityReturned
    /\ args.total_backlinks > 20
    /\ ret.new_links_30_days = args.total_backlinks \div 5
    /\ ret.velocity_health_score = 90

(***************************************************************************)
(* Claims on the outbound link statistics                                  *)
(***************************************************************************)
\* the call returned the statistics of a page
BacklinksReturned == pc = "backlinks_return" /\ "link_statistics" \in DOMAIN ret

\* the anchors of the served page that are kept as links
KeptBacklinkAnchors ==
    SelectSeq(web.anchors, LAMBDA a : ~SkippedHref(Strip(a.href)))

\* the host of the link is not the page domain; a relative href has the
\* host of the page
HostDiffers(href, page_domain) ==
    LET host == StripLeadingWww(Netloc(href))
    IN  host # "" /\ host # page_domain

\* C22: in the statistics extract_page_backlinks returns for a page,
\* dofollow_links = total_links - nofollow_links, internal_links +
\* external_links = total_links, links_with_anchor + links_without_anchor =
\* total_links, total_links = len(all_links), and external_links is the
\* number of links whose host differs from the page domain.
C22_LinkStatisticsAddUp ==
    BacklinksReturned =>
        LET stats == ret.link_statistics
        IN  /\ stats.dofollow_links = stats.total_links - stats.nofollow_links
            /\ stats.internal_links + stats.external_links = stats.total_links
            /\ stats.links_with_anchor + stats.links_without_anchor = stats.total_links
            /\ stats.total_links = Len(ret.all_links)
            /\ stats.external_links =
                  Len(SelectSeq(KeptBacklinkAnchors,
                                LAMBDA a : HostDiffers(Strip(a.href), ret.page_domain)))

(***************************************************************************)
(* Claims on the marker of a missing anchor text                           *)
(***************************************************************************)
\* the anchors of the served page that the extraction keeps
KeptAgentAnchors == SelectSeq(web.anchors, LAMBDA a : ~SkippedHref(Strip(a.href)))

\* anchors whose text is empty or only whitespace
EmptyTextAnchors == SelectSeq(KeptAgentAnchors, LAMBDA a : Strip(a.text) = "")

\* anchors whose text is empty, only whitespace, or the marker itself
MarkerTextAnchors ==
    SelectSeq(KeptAgentAnchors, LAMBDA a : Strip(a.text) \in {"", "[No text]"})

\* the score the analysis gives the page when `blank` links count as having
\* no anchor text
ScoreWithBlank(data, blank) ==
    Max(0, Min(100,
        RawQualityScore([nav_count      |-> CountOf(data.categories, "navigation"),
                         social_count   |-> CountOf(data.categories, "social"),
                         legal_count    |-> CountOf(data.categories, "legal"),
                         business_count |-> CountOf(data.categories, "business"),
                         external_count |-> CountOf(data.categories, "external"),
                         no_anchor_text |-> blank,
                         total_links    |-> data.total_links])))

\* C23 as claimed: the links the analysis counts as having no anchor text are
\* exactly those extracted from an anchor with empty or whitespace-only text:
\* their number, which the score is computed from, is the number of such
\* anchors on the page.
C23_MissingCountIsEmptyAnchors ==
    (Analysed /\ state.links_data.total_links > 0) =>
        /\ Cardinality(LinksWithoutAnchor(state.links_data)) = Len(EmptyTextAnchors)
        /\ state.categorized_report.link_quality_score =
              ScoreWithBlank(state.links_data, Len(EmptyTextAnchors))

\* C23 amended: every anchor with empty or whitespace-only text is stored
\* with the marker "[No text]", and the analysis counts a link as having no
\* anchor text exactly when its stored text is the marker, that is when the
\* anchor's text is empty, whitespace-only or literally "[No text]"; when no
\* anchor shows the literal marker, the count is the number of empty anchors.
C23_MissingCountIsMarkerAnchors ==
    (Analysed /\ state.links_data.total_links > 0) =>
        /\ Cardinality(LinksWithoutAnchor(state.links_data)) = Len(MarkerTextAnchors)
        /\ state.categorized_report.link_quality_score =
              ScoreWithBlank(state.links_data, Len(MarkerTextAnchors))
        /\ \A c \in Taxonomy :
              \A i \in 1..Len(state.links_data.categories[c].links) :
                 state.links_data.categories[c].links[i].anchor_text # ""
        /\ (MarkerTextAnchors = EmptyTextAnchors =>
               Cardinality(LinksWithoutAnchor(state.links_data)) = Len(EmptyTextAnchors))

\* a page with two anchors without text among five or more links was analysed
C23_Witness ==
    /\ Analysed
    /\ state.links_data.total_links >= 5
    /\ Len(EmptyTextAnchors) = 2
    /\ MarkerTextAnchors = EmptyTextAnchors
    /\ Cardinality(LinksWithoutAnchor(state.links_data)) = 2

(***************************************************************************)
(* Claims on the stored link URLs                                          *)
(***************************************************************************)
PageReturned == pc = "page_return" /\ "error" \notin DOMAIN ret

\* an absolute http(s) URL: scheme http or https followed by a host
IsAbsoluteUrl(u) == SchemeOf(u) \in {"http", "https"} /\ Netloc(u) # ""

\* the links of all buckets of the result
StoredLinks ==
    UNION { Range(ret.categories[c].links) : c \in DOMAIN ret.categories }

\* C24: every link get_page_links_by_category stores has an absolute url:
\* an href that is not an absolute http(s) URL, a relative path that starts
\* with the characters "http" included, is resolved against the page URL; and
\* an empty href or one starting with "javascript:" or "mailto:" gives no
\* link.
C24_StoredUrlsAreAbsolute ==
    PageReturned =>
        /\ \A l \in StoredLinks : IsAbsoluteUrl(l.url)
        /\ ret.total_links =
              Len(SelectSeq(web.anchors,
                            LAMBDA a : /\ Strip(a.href) # ""
                                       /\ ~StartsWith(Strip(a.href), "javascript:")
                                       /\ ~StartsWith(Strip(a.href), "mailto:")))

(***************************************************************************)
(* Claims on the recursion of the sitemap parser                           *)
(***************************************************************************)
SitemapReturned == pc = "sitemap_return"

RECURSIVE ReachesRecursionLimit(_, _, _)
RECURSIVE NestedReachesLimit(_, _, _, _)

\* some nested call of the loop over the <sitemap> entries is made at the
\* depth at which the interpreter raises RecursionError
NestedReachesLimit(docs, locs, acc, depth) ==
    IF locs = <<>> THEN FALSE
    ELSE IF Head(locs) = "" THEN NestedReachesLimit(docs, Tail(locs), acc, depth)
    ELSE \/ ReachesRecursionLimit(docs, Head(locs), depth + 1)
         \/ /\ Len(Extend(acc, parse_sitemap(docs, Head(locs), depth + 1),
                          SitemapFails(docs, Head(locs), depth + 1))) < SITEMAP_MAX_URLS
            /\ NestedReachesLimit(docs, Tail(locs),
                   Extend(acc, parse_sitemap(docs, Head(locs), depth + 1),
                          SitemapFails(docs, Head(locs), depth + 1)),
                   depth)

ReachesRecursionLimit(docs, sitemap_url, depth) ==
    IF depth >= RecursionDepth THEN TRUE
    ELSE IF sitemap_url \notin DOMAIN docs \/ docs[sitemap_url].outcome # "ok" THEN FALSE
    ELSE NestedReachesLimit(docs, docs[sitemap_url].sitemaps, <<>>, depth)

\* C25: parse_sitemap returns a result for every finite set of sitemap
\* documents, cyclic sitemap indexes without leaf URLs included, because the
\* URL cap guards the recursion: the nesting of the calls ends by the
\* function's own guard, below the depth at which the interpreter gives up.
C25_UrlCapGuardsRecursion ==
    SitemapReturned => ~ReachesRecursionLimit(web.docs, args.sitemap_url, 0)

(***************************************************************************)
(* Claims on the independence of the toxicity signals                      *)
(***************************************************************************)
ToxicLinks ==
    [ domain : ToxicDomains, anchor_text : ToxicAnchors,
      page_type : ToxicPageTypes, domain_authority : ToxicAuthorities ]

AllWeights ==
    TOXICITY_WEIGHTS.very_low_da + TOXICITY_WEIGHTS.low_da
    + TOXICITY_WEIGHTS.suspicious_domain + TOXICITY_WEIGHTS.suspicious_tld
    + TOXICITY_WEIGHTS.keyword_stuffing + TOXICITY_WEIGHTS.spam_keywords
    + TOXICITY_WEIGHTS.risky_page_type + TOXICITY_WEIGHTS.generic_anchor

\* C26 as claimed: the conditions of the signal table are independent, so
\* there is a link for which all eight fire at once and whose score is the
\* sum of all weights.
C26_AllSignalsCanFire ==
    pc = "toxic_return" =>
        \E a \in ToxicLinks :
            /\ Len(HeldSignals(a)) = Len(ToxicSignalTable(a))
            /\ detect_toxic_characteristics(a.domain, a.anchor_text, a.page_type,
                                            a.domain_authority).score = AllWeights

\* C26 amended: each signal that holds adds its weight, but the signals are
\* not all independent: the two authority rows exclude each other, and a
\* generic anchor excludes keyword stuffing and a spam keyword in the anchor;
\* at most six signals fire for one link and the score is at most
\* 40 + 50 + 15 + 20 + 25 + 30 = 180.
C26_SignalsThatExclude ==
    pc = "toxic_return" =>
        LET t == ToxicSignalTable(args)
        IN  /\ ~(t[1].holds /\ t[2].holds)
            /\ t[8].holds => (~t[5].holds /\ ~t[6].holds)
            /\ Len(HeldSignals(args)) <= 6
            /\ ret.score = SumWeights(HeldSignals(args))
            /\ ret.score <= 180

\* the most that fires at once: very low authority, spam domain, flagged TLD,
\* keyword stuffing, spam keyword in the anchor and a risky page type
C26_Witness ==
    /\ pc = "toxic_return"
    /\ Len(HeldSignals(args)) = 6
    /\ ret.score = 180
    /\ ret.severity = "high"

(***************************************************************************)
(* Claims on the flattened links of the API response                       *)
(***************************************************************************)
\* C27: in the response to a page with links, every entry of all_links
\* carries the category of the link and an is_internal flag that is true
\* exactly when the category is not "external", and the number of entries
\* with is_internal true equals the response's internal_links.
C27_IsInternalMatchesCategory ==
    (AnsweredPage /\ "all_links" \in DOMAIN response) =>
        /\ \A i \in 1..Len(response.all_links) :
              /\ response.all_links[i].category \in Taxonomy
              /\ response.all_links[i].is_internal
                    = (response.all_links[i].category # "external")
        /\ Len(SelectSeq(response.all_links, LAMBDA l : l.is_internal))
              = response.internal_links

(***************************************************************************)
(* Claims on the sizes of the sitemap report                               *)
(***************************************************************************)
\* the number of <loc> entries of all URL sets of the served documents
LocsServed ==
    SumSeq([i \in 1..3 |->
              LET d == web.docs[<<RootUrl, SitemapA, SitemapB>>[i]]
              IN  IF d.outcome = "ok" THEN Len(d.urls) ELSE 0])

\* C28: the list parse_sitemap returns has at most SITEMAP_MAX_URLS (1000)
\* elements whatever the size of the sitemaps, and every sitemap report has
\* total_pages_crawled = len(pages) <= total_pages_in_sitemap <= 1000.
C28_ReportSizesAreCapped ==
    /\ (pc \in {"crawl_loop", "crawl_done"} /\ SitemapParsed) =>
          Len(urls) <= SITEMAP_MAX_URLS
    /\ (CrawlReturned /\ SitemapParsed) =>
          /\ ret.total_pages_crawled = Len(ret.pages)
          /\ ret.total_pages_crawled <= ret.total_pages_in_sitemap
          /\ ret.total_pages_in_sitemap <= SITEMAP_MAX_URLS
          /\ ret.total_pages_in_sitemap <= 1000

\* a report on sitemaps of more than 1000 entries in all: 1000 are counted,
\* and fewer pages are in the report than were fetched
C28_Witness ==
    /\ CrawlReturned
    /\ SitemapParsed
    /\ LocsServed > SITEMAP_MAX_URLS
    /\ ret.total_pages_in_sitemap = SITEMAP_MAX_URLS
    /\ Len(served) = 3
    /\ ret.total_pages_crawled = 2

(***************************************************************************)
(* Claims on the reachable trend labels                                    *)
(***************************************************************************)
\* C29: previous_30_days is max(1, floor(new_links_30_days * u)) with u in
\* [0.6, 1.2], so the acceleration of a returned report is never below -20
\* percent: the trend is never "declining", and it is one of accelerating,
\* growing, stable and slowing.
C29_DecliningIsUnreachable ==
    VelocityReturned =>
        /\ ret.previous_30_days
              >= Max(1, (ret.new_links_30_days * PreviousFactorMin) \div 100)
        /\ ret.previous_30_days
              <= Max(1, (ret.new_links_30_days * PreviousFactorMax) \div 100)
        /\ ~ReportedBelow(ACCELERATION_DECLINING)
        /\ ret.trend # "declining"
        /\ ret.trend \in {"accelerating", "growing", "stable", "slowing"}

\* the lowest acceleration there is: the largest factor, 1.2, on 5 new links
\* gives a previous period of 6 and an acceleration of -16.67, labelled slowing
C29_Witness ==
    /\ VelocityReturned
    /\ ret.new_links_30_days = 5
    /\ ret.previous_30_days = 6
    /\ ret.acceleration_rate = -1667
    /\ ret.trend = "slowing"

(***************************************************************************)
(* Claims on the floors of the velocity estimates                          *)
(***************************************************************************)
\* C30: a returned velocity report has new_links_30_days >= 1,
\* new_links_90_days >= 2 and new_links_90_days >= new_links_30_days for
\* every input, a total of 0 backlinks included; so the stalled branch is
\* never taken: the health score is never 20 and the warning "No new links
\* in last 30 days" is never in velocity_warnings.
C30_EstimatesHaveFloors ==
    VelocityReturned =>
        /\ ret.new_links_30_days >= 1
        /\ ret.new_links_90_days >= 2
        /\ ret.new_links_90_days >= ret.new_links_30_days
        /\ ret.velocity_health_score # 20
        /\ \A i \in 1..Len(ret.velocity_warnings) :
              ret.velocity_warnings[i]
                  # "No new links in last 30 days - acquisition has stalled"

\* a profile of more than 20 backlinks whose estimate truncates to 0: the
\* floor makes it 1, and the report is not the stalled one
C30_Witness ==
    /\ VelocityReturned
    /\ args.total_backlinks > 20
    /\ MonthlyEstimate(WeightedTotal(args.high_auth_count, args.medium_auth_count,
                                     args.low_auth_count),
                       ret.monthly_growth_rate \div 100) = 0
    /\ ret.new_links_30_days = 1
    /\ ret.new_links_90_days = 2
    /\ ret.velocity_health_score = 50

\* with no backlinks at all the two estimates are the floors 1 and 2
C30_WitnessNoBacklinks ==
    /\ VelocityReturned
    /\ args.total_backlinks = 0
    /\ ret.new_links_30_days = 1
    /\ ret.new_links_90_days = 2

====
